---- MODULE Spec2Model ----
(***************************************************************************)
(* A model of the request dispatcher of mcp-ollama-python                  *)
(* (src/src/mcp_ollama_python): OllamaMCPServer in server.py, the          *)
(* transport handlers of main.py that wrap it, and the tool registry and   *)
(* discovery of autoloader.py, and of the renderer format_response of      *)
(* response_formatter.py.                                                  *)
(*                                                                         *)
(* Requests are asyncio tasks on one event loop.  A task runs without      *)
(* interruption until it awaits something that really suspends: a tool     *)
(* handler or a backend query.  discover_tools_with_handlers is declared   *)
(* async but contains no await, so awaiting it never yields to the loop:   *)
(* the check "tool_registry is None", the discovery and the assignment     *)
(* are one step.                                                           *)
(*                                                                         *)
(* Python values are records tagged with their type (ty); text is a TLA+   *)
(* string, so prefixes, strip() and JSON parsing are computed on           *)
(* characters.                                                             *)
(***************************************************************************)
EXTENDS Integers, Sequences, FiniteSets, Bags, TLC

VARIABLES
    tool_registry,  \* OllamaMCPServer.tool_registry: None or a ToolRegistry
    tasks,          \* bag of the requests in flight (one asyncio task each)
    discoverLog,    \* outcome of every call of discover_tools_with_handlers
    raced,          \* two list/invoke requests were in flight, registry unbuilt
    last,           \* the request the latest step completed, if it completed
                    \* one, with what it was given, did and returned
    registry,       \* the ToolRegistry a run of discovery is filling
    history,        \* what was done to registry, in order: the modules the
                    \* loop has gone through and the direct register calls
    rendered,       \* the latest value given to format_response, with what
                    \* the call did and what a call on its result did
    markdown,       \* the value given to json_to_markdown, with what the
                    \* call returned and the seen set it left
    loop,           \* the invoke calls the event loop holds, each with how
                    \* far its handler got
    posted,         \* the latest POST of the backend client, with what the
                    \* HTTP call did and what _post did
    dispatchers,    \* two dispatchers, each with the backend client it was
                    \* constructed with and what its read of ollama://config
                    \* returned
    control,        \* the PID file, the servers the control script launched
                    \* and how far each running invocation of the script got
    process         \* the server process: where main is, its tasks, its
                    \* event loop and its backend HTTP client

\* The state of the dispatcher.
dispatcherVars == <<tool_registry, tasks, discoverLog, raced, last>>

\* The state of a registry under construction.
registryVars == <<registry, history>>

\* The state of a caller of the renderer.
formatterVars == <<rendered>>

\* The state of a caller of the Markdown renderer.
markdownVars == <<markdown>>

\* The state of the event loop that runs the handlers.
loopVars == <<loop>>

\* The state of a caller of the backend client.
clientVars == <<posted>>

\* The state of two dispatchers that read their configuration.
configVars == <<dispatchers>>

\* The state of the control script and of what it launched.
controlVars == <<control>>

\* The state of the server process.
mainVars == <<process>>

vars == <<dispatcherVars, registryVars, formatterVars, markdownVars, loopVars, clientVars, configVars, controlVars, mainVars>>

\* What a step of the dispatcher leaves alone.
outsideDispatcher == <<registryVars, formatterVars, markdownVars, loopVars, clientVars, configVars, controlVars, mainVars>>

\* What a step of a registry's construction leaves alone.
outsideRegistry == <<dispatcherVars, formatterVars, markdownVars, loopVars, clientVars, configVars, controlVars, mainVars>>

\* What a call of the renderer leaves alone.
outsideFormatter == <<dispatcherVars, registryVars, markdownVars, loopVars, clientVars, configVars, controlVars, mainVars>>

\* What a call of the Markdown renderer leaves alone.
outsideMarkdown == <<dispatcherVars, registryVars, formatterVars, loopVars, clientVars, configVars, controlVars, mainVars>>

\* What a step of the event loop leaves alone.
outsideLoop == <<dispatcherVars, registryVars, formatterVars, markdownVars, clientVars, configVars, controlVars, mainVars>>

\* What a POST of the backend client leaves alone.
outsideClient == <<dispatcherVars, registryVars, formatterVars, markdownVars, loopVars, configVars, controlVars, mainVars>>

\* What the construction of a dispatcher and a read of its configuration leave alone.
outsideConfig == <<dispatcherVars, registryVars, formatterVars, markdownVars, loopVars, clientVars, controlVars, mainVars>>

\* What a step of the control script leaves alone.
outsideControl == <<dispatcherVars, registryVars, formatterVars, markdownVars, loopVars, clientVars, configVars, mainVars>>

\* What a step of the server process leaves alone.
outsideMain == <<dispatcherVars, registryVars, formatterVars, markdownVars, loopVars, clientVars, configVars, controlVars>>

(***************************** bounds **************************************)

\* Requests in flight at the same time.
MaxTasks == 2

\* Calls of the discovery source over one run.
MaxDiscover == 3

\* Modules scanned into and register calls made on one registry.
MaxHistory == 3

\* Items of a list and pairs of a dict given to json_to_markdown.
MaxItems == 2

\* Invoke calls the event loop holds at the same time.
MaxCalls == 3

\* Invocations of the control script that run at the same time.
MaxScripts == 2

\* Servers the control script launches over one run.
MaxLaunches == 3

\* Requests the server process handles over one run.
MaxRequests == 2

\* The arrays and objects, one inside the other, that the interpreter's
\* recursion limit lets json.loads descend into on a call from the
\* formatter or the dispatcher (sys.getrecursionlimit() less the frames in
\* use, about a thousand by default).
RecursionLimit == 3

(***************************** text ****************************************)

Min(a, b) == IF a < b THEN a ELSE b

\* The character of s at position i (1-based), "" outside s.
Ch(s, i) == IF i >= 1 /\ i <= Len(s) THEN SubSeq(s, i, i) ELSE ""

\* s[i .. i+n-1], cut at the end of s.
Sub(s, i, n) == IF i > Len(s) THEN "" ELSE SubSeq(s, i, Min(i + n - 1, Len(s)))

\* str.startswith
StartsWith(s, p) == Sub(s, 1, Len(p)) = p

\* p in s
Contains(s, p) == \E i \in 1..(Len(s) + 1) : Sub(s, i, Len(p)) = p

\* The characters str.strip() removes (those of the model's texts).
Whitespace == {" ", "\t", "\n", "\r"}

\* The text c, n times over.
RECURSIVE Repeat(_, _)
Repeat(c, n) == IF n <= 0 THEN "" ELSE c \o Repeat(c, n - 1)

RECURSIVE LStrip(_)
LStrip(s) ==
    IF Len(s) > 0 /\ Ch(s, 1) \in Whitespace
    THEN LStrip(SubSeq(s, 2, Len(s)))
    ELSE s

RECURSIVE RStrip(_)
RStrip(s) ==
    IF Len(s) > 0 /\ Ch(s, Len(s)) \in Whitespace
    THEN RStrip(SubSeq(s, 1, Len(s) - 1))
    ELSE s

\* str.strip()
Strip(s) == RStrip(LStrip(s))

Digits == {"0", "1", "2", "3", "4", "5", "6", "7", "8", "9"}

(***************************** json.loads **********************************)
(* The standard decoder, on the grammar it accepts: whitespace, the        *)
(* literals, numbers, strings with escapes, arrays and objects.  A parsed  *)
(* value is represented by its compact serialisation (no insignificant     *)
(* whitespace), so two texts denote the same value when their compact      *)
(* forms agree; Python's None is the value "null".                         *)

JsonWs == {" ", "\t", "\n", "\r"}

\* The nesting the C scanner may enter: each array and each object it
\* enters is one recursive call counted against the recursion limit.
DecoderDepth == RecursionLimit

JsonLiterals == <<"null", "true", "false", "NaN", "Infinity", "-Infinity">>

HexDigits == Digits \cup {"a", "b", "c", "d", "e", "f", "A", "B", "C", "D", "E", "F"}

\* JSONDecodeError at position i.
JsonFail(i) == [ok |-> FALSE, pos |-> i, val |-> "", err |-> "JSONDecodeError"]

\* RecursionError: the array or object (what) at position i would nest
\* deeper than the interpreter lets the decoder descend.
JsonRecursion(i, what) ==
    [ok |-> FALSE, pos |-> i, val |-> "", err |-> "RecursionError",
     message |-> "maximum recursion depth exceeded while decoding a JSON "
                    \o what \o " from a unicode string"]

JsonOk(i, v) == [ok |-> TRUE, pos |-> i, val |-> v, err |-> ""]

RECURSIVE SkipWs(_, _)
SkipWs(s, i) == IF Ch(s, i) \in JsonWs THEN SkipWs(s, i + 1) ELSE i

RECURSIVE SkipDigits(_, _)
SkipDigits(s, i) == IF Ch(s, i) \in Digits THEN SkipDigits(s, i + 1) ELSE i

\* The exponent whose digits span e2..e3-1, after the integer and fraction
\* that end at i3; none when it has no digit.
MatchExpDigits(s, i3, e2, e3) == IF e3 > e2 THEN e3 ELSE i3

\* ([eE][-+]?\d+)? at i3.
MatchExp(s, i3, e2) ==
    IF Ch(s, i3) \in {"e", "E"}
    THEN MatchExpDigits(s, i3, e2, SkipDigits(s, e2))
    ELSE i3

\* The rest of the number after the integer and fraction that end at i3.
MatchAfterFrac(s, i3) ==
    MatchExp(s, i3, IF Ch(s, i3 + 1) \in {"-", "+"} THEN i3 + 2 ELSE i3 + 1)

\* (\.\d+)? at i2, where f is the end of the digits after a ".".
MatchFrac(s, i2, f) == MatchAfterFrac(s, IF f > i2 + 1 THEN f ELSE i2)

\* The number whose integer part spans i1..i2-1; none when it is empty.
MatchInt(s, i, i1, i2) ==
    IF i2 = i1 THEN i
    ELSE MatchFrac(s, i2, IF Ch(s, i2) = "." THEN SkipDigits(s, i2 + 1) ELSE i2)

\* The number whose digits start at i1, after the sign.
MatchSigned(s, i, i1) ==
    MatchInt(s, i, i1, IF Ch(s, i1) = "0" THEN i1 + 1 ELSE SkipDigits(s, i1))

\* NUMBER_RE: -?(0|[1-9]\d*)(\.\d+)?([eE][-+]?\d+)? ; the position after the
\* match at i, or i when nothing matches.
MatchNumber(s, i) == MatchSigned(s, i, IF Ch(s, i) = "-" THEN i + 1 ELSE i)

\* py_scanstring from the character after the opening quote: the position
\* after the closing quote, or 0 when the string is unterminated or holds a
\* control character or a bad escape.
RECURSIVE ScanString(_, _)
ScanString(s, i) ==
    LET c == Ch(s, i) IN
    IF c = "" \/ c \in {"\t", "\n", "\r"} THEN 0
    ELSE IF c = "\"" THEN i + 1
    ELSE IF c = "\\" THEN
        IF Ch(s, i + 1) \in {"\"", "\\", "/", "b", "f", "n", "r", "t"}
        THEN ScanString(s, i + 2)
        ELSE IF Ch(s, i + 1) = "u"
                /\ \A k \in 2..5 : Ch(s, i + k) \in HexDigits
        THEN ScanString(s, i + 6)
        ELSE 0
    ELSE ScanString(s, i + 1)

RECURSIVE ParseValue(_, _, _)
RECURSIVE ParseArrayItems(_, _, _, _)
RECURSIVE ParseObjectItems(_, _, _, _)

\* JSONArray after an item that ends before j: "]" closes the array, ","
\* brings the next item.
ArrayNext(s, j, acc, d) ==
    IF Ch(s, j) = "]" THEN JsonOk(j + 1, acc \o "]")
    ELSE IF Ch(s, j) = "," THEN ParseArrayItems(s, SkipWs(s, j + 1), acc \o ",", d)
    ELSE JsonFail(j)

\* JSONArray with the item at i parsed to r.
ArrayAfterItem(s, i, acc, r, d) ==
    IF ~r.ok THEN r ELSE ArrayNext(s, SkipWs(s, r.pos), acc \o r.val, d)

\* JSONArray after "[" and the items before position i, acc their text.
ParseArrayItems(s, i, acc, d) == ArrayAfterItem(s, i, acc, ParseValue(s, i, d), d)

\* JSONObject after a pair that ends before j: "}" closes the object, ","
\* brings the next pair.
ObjectNext(s, j, acc, d) ==
    IF Ch(s, j) = "}" THEN JsonOk(j + 1, acc \o "}")
    ELSE IF Ch(s, j) = "," THEN ParseObjectItems(s, SkipWs(s, j + 1), acc \o ",", d)
    ELSE JsonFail(j)

\* JSONObject with the value of the pair at i parsed to r.
ObjectAfterValue(s, i, acc, r, d) ==
    IF ~r.ok THEN r ELSE ObjectNext(s, SkipWs(s, r.pos), acc \o r.val, d)

\* JSONObject with the key at i ending before k, and c the position after
\* the whitespace that follows it: a ":" and the value.
ObjectAfterKey(s, i, acc, k, c, d) ==
    IF Ch(s, c) # ":" THEN JsonFail(i)
    ELSE ObjectAfterValue(s, i, acc \o SubSeq(s, i, k - 1) \o ":",
                          ParseValue(s, SkipWs(s, c + 1), d), d)

\* JSONObject with the key at i scanned to k (0: no key).
ObjectKey(s, i, acc, k, d) ==
    IF k = 0 THEN JsonFail(i) ELSE ObjectAfterKey(s, i, acc, k, SkipWs(s, k), d)

\* JSONObject at a key's opening quote (position i).
ParseObjectItems(s, i, acc, d) ==
    ObjectKey(s, i, acc, IF Ch(s, i) = "\"" THEN ScanString(s, i + 1) ELSE 0, d)

\* scan_once at position i, inside d arrays and objects.
ParseValue(s, i, d) ==
    LET c == Ch(s, i)
        lits == {n \in 1..Len(JsonLiterals) :
                    Sub(s, i, Len(JsonLiterals[n])) = JsonLiterals[n]}
        num == MatchNumber(s, i)
    IN  IF c = "\"" THEN
            LET e == ScanString(s, i + 1)
            IN  IF e = 0 THEN JsonFail(i) ELSE JsonOk(e, SubSeq(s, i, e - 1))
        ELSE IF c = "{" THEN
            LET j == SkipWs(s, i + 1)
            IN  IF d >= DecoderDepth THEN JsonRecursion(i, "object")
                ELSE IF Ch(s, j) = "}" THEN JsonOk(j + 1, "{}")
                ELSE ParseObjectItems(s, j, "{", d + 1)
        ELSE IF c = "[" THEN
            LET j == SkipWs(s, i + 1)
            IN  IF d >= DecoderDepth THEN JsonRecursion(i, "array")
                ELSE IF Ch(s, j) = "]" THEN JsonOk(j + 1, "[]")
                ELSE ParseArrayItems(s, j, "[", d + 1)
        ELSE IF num > i THEN JsonOk(num, SubSeq(s, i, num - 1))
        ELSE IF lits # {} THEN
            LET n == CHOOSE n \in lits : TRUE
            IN  JsonOk(i + Len(JsonLiterals[n]), JsonLiterals[n])
        ELSE JsonFail(i)

\* The outcome of json.loads(s) when its value parsed to r: the value, or
\* the exception raised (ok = FALSE): the RecursionError of the scan, or
\* JSONDecodeError, also for text after the value ("Extra data").
LoadsResult(s, r) ==
    IF r.ok /\ SkipWs(s, r.pos) = Len(s) + 1
    THEN [ok |-> TRUE, val |-> r.val, err |-> ""]
    ELSE IF r.err = "RecursionError"
    THEN [ok |-> FALSE, val |-> "", err |-> r.err, message |-> r.message]
    ELSE [ok |-> FALSE, val |-> "", err |-> "JSONDecodeError"]

\* json.loads(s) for a str s.
JsonLoads(s) == LoadsResult(s, ParseValue(s, SkipWs(s, 1), 0))

(***************************** Python values *******************************)

\* A str.
Str(s) == [ty |-> "str", v |-> s]

\* None.
PyNone == [ty |-> "NoneType", v |-> "None"]

\* An int, by its decimal text.
PyInt(s) == [ty |-> "int", v |-> s]

\* repr(x) of a str, an int or None.
Repr(x) == IF x.ty = "str" THEN "'" \o x.v \o "'" ELSE x.v

\* repr of a dict, from the set of its (key, value) pairs.
RECURSIVE DictRepr(_)
DictRepr(items) ==
    IF items = {} THEN ""
    ELSE LET it == CHOOSE it \in items : TRUE
             rest == items \ {it}
         IN  "'" \o it.k \o "': " \o Repr(it.val)
                \o (IF rest = {} THEN "" ELSE ", " \o DictRepr(rest))

\* A dict with str keys: items is the set of its (key, value) pairs, v its
\* text form.
Dict(items) == [ty |-> "dict", v |-> "{" \o DictRepr(items) \o "}", items |-> items]

\* A list (its content is never read by the dispatcher).
EmptyList == [ty |-> "list", v |-> "[]"]

\* d.get(k, default) on a dict.
DictGet(d, k, default) ==
    IF \E it \in d.items : it.k = k
    THEN (CHOOSE it \in d.items : it.k = k).val
    ELSE default

\* str(x), for the values the model passes.
PyStr(x) == x.v

\* bool(x): None, 0, "" and empty containers are false.
Truthy(x) ==
    CASE x.ty = "NoneType" -> FALSE
      [] x.ty = "str" -> x.v # ""
      [] x.ty = "int" -> x.v # "0"
      [] x.ty = "dict" -> x.items # {}
      [] x.ty = "list" -> x.v # "[]"
      [] OTHER -> TRUE

(***************************** models.py ***********************************)

ResponseFormatMarkdown == "markdown"

ResponseFormatJson == "json"

Letters == {"a", "b", "c", "d", "e", "f", "g", "h", "i", "j", "k", "l", "m",
            "n", "o", "p", "q", "r", "s", "t", "u", "v", "w", "x", "y", "z",
            "A", "B", "C", "D", "E", "F", "G", "H", "I", "J", "K", "L", "M",
            "N", "O", "P", "Q", "R", "S", "T", "U", "V", "W", "X", "Y", "Z"}

\* str.isalnum(): not empty and every character a letter or a digit.
IsAlnum(s) ==
    Len(s) > 0 /\ \A i \in 1..Len(s) : Ch(s, i) \in Letters \cup Digits

\* str.replace(c, "") for a single character c.
RECURSIVE RemoveChar(_, _)
RemoveChar(s, c) ==
    IF s = "" THEN ""
    ELSE (IF Ch(s, 1) = c THEN "" ELSE Ch(s, 1))
            \o RemoveChar(SubSeq(s, 2, Len(s)), c)

\* A validator that checks the character set and not the first character.
ValidateNameCharsOnly(v) ==
    /\ v # "" /\ Strip(v) # ""
    /\ IsAlnum(RemoveChar(RemoveChar(v, "_"), "-"))

\* ToolDefinition.validate_name: TRUE when the validator returns the name,
\* FALSE when it raises ValueError.
ValidateName(v) ==
    /\ v # "" /\ Strip(v) # ""
    /\ IsAlnum(Ch(v, 1))
    /\ IsAlnum(RemoveChar(RemoveChar(v, "_"), "-"))

\* A ToolDefinition instance.
ToolDefinition(name, description, input_schema) ==
    [name |-> name, description |-> description, input_schema |-> input_schema]

(***************************** autoloader.py *******************************)

\* ToolRegistry.__init__; id is the identity of the object.
NewRegistry(id) ==
    [ty |-> "ToolRegistry", id |-> id, tools |-> <<>>, handlers |-> {}]

\* ToolRegistry.register: append the definition, bind the name (a later
\* binding of the same name replaces the earlier one).
Register(reg, tool_def, handler) ==
    [reg EXCEPT
        !.tools = Append(@, tool_def),
        !.handlers = {h \in @ : h.name # tool_def.name}
                        \cup {[name |-> tool_def.name, handler |-> handler]}]

\* The handler name for "no handler" (None).
NoHandler == ""

\* A lookup that falls back to some registered handler for a missing name.
GetHandlerDefaulting(reg, tool_name) ==
    IF \E h \in reg.handlers : h.name = tool_name
    THEN (CHOOSE h \in reg.handlers : h.name = tool_name).handler
    ELSE IF reg.handlers # {} THEN (CHOOSE h \in reg.handlers : TRUE).handler
    ELSE NoHandler

\* ToolRegistry.get_handler: handlers.get(tool_name), None when absent.
GetHandler(reg, tool_name) ==
    IF \E h \in reg.handlers : h.name = tool_name
    THEN (CHOOSE h \in reg.handlers : h.name = tool_name).handler
    ELSE NoHandler

\* A module of the tools package, as discovery sees it:
\*   loads       importing it succeeds
\*   kind        what its tool_definition attribute is: "absent", a
\*               "ToolDefinition", a "dict", or something else ("other")
\*   def         the definition's fields
\*   handler     its first callable attribute named *_handler, or NoHandler
Module(module_name, loads, kind, name, handler) ==
    [module_name |-> module_name, loads |-> loads, kind |-> kind,
     def |-> ToolDefinition(name, "About " \o name, "schema of " \o name),
     handler |-> handler]

\* The tools package of the model, in pkgutil.iter_modules order: two
\* modules that register (list with a ToolDefinition, ps with a dict that
\* discovery converts), and one module of each kind that discovery skips.
ToolsDir ==
    << Module("__init__", TRUE, "absent", "", NoHandler),
       Module("broken", FALSE, "absent", "", NoHandler),
       Module("helpers", TRUE, "absent", "", NoHandler),
       Module("list", TRUE, "ToolDefinition", "ollama_list", "list_models_handler"),
       Module("malformed", TRUE, "dict", "bad name!", "malformed_handler"),
       Module("nohandler", TRUE, "ToolDefinition", "ollama_orphan", NoHandler),
       Module("notadef", TRUE, "other", "", "notadef_handler"),
       Module("ps", TRUE, "dict", "ollama_ps", "ps_handler") >>

\* What one iteration of the loop did: whether an exception left it, the
\* registry after it, and the counter it incremented.
Iteration(raised, reg, counted) ==
    [raised |-> raised, registry |-> reg, counted |-> counted]

\* The body of the try statement of the loop for one module m: importing it
\* raises when the module cannot be loaded, and when its body constructs a
\* ToolDefinition with a name the validator rejects.
ModuleBody(m, reg) ==
    IF ~m.loads THEN Iteration(TRUE, reg, "none")
    ELSE IF m.kind = "ToolDefinition" /\ ~ValidateName(m.def.name)
    THEN Iteration(TRUE, reg, "none")
    ELSE IF m.kind = "absent" THEN Iteration(FALSE, reg, "none")
    ELSE IF m.kind = "dict" /\ ~ValidateName(m.def.name)
    THEN Iteration(FALSE, reg, "failed")
    ELSE IF m.kind \in {"dict", "ToolDefinition"} THEN
         IF m.handler # NoHandler
         THEN Iteration(FALSE, Register(reg, m.def, m.handler), "loaded")
         ELSE Iteration(FALSE, reg, "failed")
    ELSE Iteration(FALSE, reg, "failed")

\* A loop without the except clause: the exception leaves the loop.
OnModuleErrorPropagating(reg) == Iteration(TRUE, reg, "none")

\* "except Exception as e: ... failed_count += 1; continue" of the loop.
OnModuleError(reg) == Iteration(FALSE, reg, "failed")

\* What the try statement makes of the outcome b of its body.
TryModule(b, reg) == IF b.raised THEN OnModuleError(reg) ELSE b

\* One iteration of the loop of discover_tools_with_handlers, for module m,
\* registering into reg.
DiscoverModule(m, reg) ==
    IF StartsWith(m.module_name, "__") THEN Iteration(FALSE, reg, "none")
    ELSE TryModule(ModuleBody(m, reg), reg)

\* The rest of the loop after an iteration that ended as r.
RECURSIVE DiscoverFrom(_, _, _)
DiscoverNext(dir, i, r) ==
    IF r.raised THEN r.registry ELSE DiscoverFrom(dir, i + 1, r.registry)

\* The loop of discover_tools_with_handlers over modules i..Len(dir),
\* registering into reg.
DiscoverFrom(dir, i, reg) ==
    IF i > Len(dir) THEN reg
    ELSE DiscoverNext(dir, i, DiscoverModule(dir[i], reg))

\* What the loop of discover_tools_with_handlers registers from the tools
\* package: every module with a valid definition and a handler, in order.
Discovered == DiscoverFrom(ToolsDir, 1, NewRegistry(0))

\* discover_tools_with_handlers when the tools package imports: a new
\* registry object (identity id) with what the loop registered.
DiscoverToolsWithHandlers(id) == [Discovered EXCEPT !.id = id]

\* The message of the ImportError discovery raises when the tools package
\* cannot be imported.
ImportErrorMessage == "No module named 'mcp_ollama_python.tools'"

(***************************** server.py: invoke ***************************)

\* OllamaMCPServer.tool_registry before the first successful discovery.
None == [ty |-> "NoneType"]

\* The host of a client constructed without one, OLLAMA_HOST unset.
DEFAULT_HOST == "http://127.0.0.1:11434"

\* The backend client the dispatcher was constructed with.
OllamaClient ==
    [ty |-> "OllamaClient", host |-> DEFAULT_HOST, api_key |-> PyNone]

\* How a call of discover_tools_with_handlers can end.
DiscoveryOutcomes == {"ok", "ImportError"}

\* result.get("isError") is True
IsError(envelope) == "isError" \in DOMAIN envelope /\ envelope.isError

\* _create_error_response
CreateErrorResponse(message) ==
    [content |-> <<[type |-> "text", text |-> "Error: " \o message]>>,
     isError |-> TRUE]

\* A validation that forgets the emptiness test.
ValidNameAcceptBlank(name) == name.ty = "str"

\* not (not isinstance(name, str) or not name.strip())
ValidName(name) == name.ty = "str" /\ Strip(name.v) # ""

\* isinstance(args, dict)
ValidArgs(args) == args.ty = "dict"

\* A dispatcher that never takes the registry for built.
NeedsBuildAlways(reg) == TRUE

\* self.tool_registry is None
NeedsBuild(reg) == reg = None

\* A build without the "is None" guard: every request discovers again.
EnsureRegistryRebuilding(reg, outcome, id) ==
    IF outcome # "ImportError"
    THEN [raised |-> FALSE, registry |-> DiscoverToolsWithHandlers(id),
          discovered |-> <<"ok">>, message |-> ""]
    ELSE [raised |-> TRUE, registry |-> reg,
          discovered |-> <<outcome>>, message |-> ImportErrorMessage]

\* "if self.tool_registry is None: self.tool_registry = await
\* discover_tools_with_handlers()": the registry the request goes on with,
\* what it did to the discovery source, and the error it raised, if any.
\* id is the identity a new registry gets.
EnsureRegistry(reg, outcome, id) ==
    IF ~NeedsBuild(reg)
    THEN [raised |-> FALSE, registry |-> reg, discovered |-> <<>>, message |-> ""]
    ELSE IF outcome = "ok"
    THEN [raised |-> FALSE, registry |-> DiscoverToolsWithHandlers(id),
          discovered |-> <<outcome>>, message |-> ""]
    ELSE [raised |-> TRUE, registry |-> reg,
          discovered |-> <<outcome>>, message |-> ImportErrorMessage]

\* A format test that ignores the case of the first letter.
ResponseFormatOfIgnoringCase(args) ==
    IF DictGet(args, "format", Str("json")) \in {Str("markdown"), Str("Markdown")}
    THEN ResponseFormatMarkdown
    ELSE ResponseFormatJson

\* The format handed to the handler: Markdown exactly when args["format"]
\* equals "markdown".
ResponseFormatOf(args) ==
    IF DictGet(args, "format", Str("json")) = Str("markdown")
    THEN ResponseFormatMarkdown
    ELSE ResponseFormatJson

\* The value None of structured_data, as a JSON value.
JsonNull == "null"

\* A side channel that attaches the text itself, as a JSON string, without
\* parsing it.
StructuredDataRaw(result) ==
    IF result.ty = "str" /\ Strip(result.v) # ""
    THEN "\"" \o result.v \o "\""
    ELSE JsonNull

\* structured_data: json.loads(result) for a non-blank str that parses,
\* None otherwise.
StructuredData(result) ==
    IF result.ty = "str" /\ Strip(result.v) # ""
    THEN LET parsed == JsonLoads(result.v)
         IN  IF parsed.ok THEN parsed.val ELSE JsonNull
    ELSE JsonNull

\* The envelope of a handler that returned.
SuccessEnvelope(result) ==
    [content |-> <<[type |-> "text",
                    text |-> IF result.ty = "str" THEN result.v ELSE PyStr(result)]>>,
     structuredContent |-> StructuredData(result)]

\* json.loads(result) raises an exception that "except
\* (json.JSONDecodeError, TypeError)" does not catch.
StructuredDataRaises(result) ==
    /\ result.ty = "str"
    /\ Strip(result.v) # ""
    /\ JsonLoads(result.v).err = "RecursionError"

\* An invoke without the except clause: the exception reaches the caller.
CallToolOnErrorPropagating(message) ==
    [outcome |-> "raised", result |-> [message |-> message]]

\* "except Exception as error: return self._create_error_response(str(error))"
\* of handle_call_tool.
CallToolOnError(message) ==
    [outcome |-> "returned", result |-> CreateErrorResponse(message)]

\* handle_call_tool up to its first suspension: either it returns
\* (kind "done") or it has called the handler and awaits it (kind "await").
HandleCallTool(name, args, reg, outcome, id) ==
    IF ~ValidName(name)
    THEN [kind |-> "done", registry |-> reg, discovered |-> <<>>, calls |-> <<>>,
          outcome |-> "returned",
          result |-> CreateErrorResponse("Invalid tool name")]
    ELSE IF ~ValidArgs(args)
    THEN [kind |-> "done", registry |-> reg, discovered |-> <<>>, calls |-> <<>>,
          outcome |-> "returned",
          result |-> CreateErrorResponse("Invalid tool arguments")]
    ELSE LET e == EnsureRegistry(reg, outcome, id)
             handler == GetHandler(e.registry, name.v)
         IN  IF e.raised
             THEN [kind |-> "done", registry |-> e.registry,
                   discovered |-> e.discovered, calls |-> <<>>,
                   outcome |-> CallToolOnError(e.message).outcome,
                   result |-> CallToolOnError(e.message).result]
             ELSE IF handler = NoHandler
             THEN [kind |-> "done", registry |-> e.registry,
                   discovered |-> e.discovered, calls |-> <<>>,
                   outcome |-> "returned",
                   result |-> CreateErrorResponse("Unknown tool: " \o name.v)]
             ELSE [kind |-> "await", registry |-> e.registry,
                   discovered |-> e.discovered,
                   calls |-> <<[handler |-> handler, client |-> OllamaClient,
                                args |-> args, format |-> ResponseFormatOf(args)]>>,
                   outcome |-> "none", result |-> None]

(***************************** server.py: list *****************************)

\* A listing without the except clause: the exception reaches the caller.
ListToolsOnErrorPropagating(message) ==
    [outcome |-> "raised", result |-> [message |-> message]]

\* "except Exception as error: return {"tools": []}" of handle_list_tools.
ListToolsOnError(message) ==
    [outcome |-> "returned", result |-> [tools |-> <<>>]]

\* A listing that gives the tools latest registration first.
ToolListingLatestFirst(reg) ==
    [tools |-> [i \in 1..Len(reg.tools) |->
                    [name |-> reg.tools[Len(reg.tools) + 1 - i].name,
                     description |-> reg.tools[Len(reg.tools) + 1 - i].description,
                     inputSchema |-> reg.tools[Len(reg.tools) + 1 - i].input_schema]]]

\* The listing of a registry's tools.
ToolListing(reg) ==
    [tools |-> [i \in 1..Len(reg.tools) |->
                    [name |-> reg.tools[i].name,
                     description |-> reg.tools[i].description,
                     inputSchema |-> reg.tools[i].input_schema]]]

\* handle_list_tools.
HandleListTools(reg, outcome, id) ==
    LET e == EnsureRegistry(reg, outcome, id)
    IN  IF e.raised
        THEN [registry |-> e.registry, discovered |-> e.discovered,
              outcome |-> ListToolsOnError(e.message).outcome,
              result |-> ListToolsOnError(e.message).result]
        ELSE [registry |-> e.registry, discovered |-> e.discovered,
              outcome |-> "returned", result |-> ToolListing(e.registry)]

(***************************** server.py: resources ************************)

RESOURCE_URI_MODELS == "ollama://models"

RESOURCE_URI_RUNNING == "ollama://running"

RESOURCE_URI_CONFIG == "ollama://config"

MIME_TYPE_JSON == "application/json"

MIME_TYPE_TEXT == "text/plain"

\* _initialize_default_resources: the catalog, uri -> mime type.
Resources ==
    {[uri |-> RESOURCE_URI_MODELS, mime_type |-> MIME_TYPE_JSON],
     [uri |-> RESOURCE_URI_RUNNING, mime_type |-> MIME_TYPE_JSON],
     [uri |-> RESOURCE_URI_CONFIG, mime_type |-> MIME_TYPE_JSON]}

ResourceUris == {r.uri : r \in Resources}

MimeTypeOf(uri) == (CHOOSE r \in Resources : r.uri = uri).mime_type

\* json.dumps of a scalar or an empty container.
JsonScalar(x) ==
    CASE x.ty = "str" -> "\"" \o x.v \o "\""
      [] x.ty = "bool" -> (IF x.v = "True" THEN "true" ELSE "false")
      [] x.ty = "NoneType" -> "null"
      [] OTHER -> x.v

\* The lines of json.dumps(d, indent=2) for the entries i.. of a dict,
\* given as the sequence of its (key, value) pairs in insertion order.
RECURSIVE JsonDumpsItems(_, _)
JsonDumpsItems(pairs, i) ==
    IF i > Len(pairs) THEN ""
    ELSE "  \"" \o pairs[i].k \o "\": " \o JsonScalar(pairs[i].val)
            \o (IF i < Len(pairs) THEN ",\n" ELSE "\n")
            \o JsonDumpsItems(pairs, i + 1)

\* json.dumps(d, indent=2) of a dict of scalars.
JsonDumpsIndent2(pairs) ==
    IF pairs = <<>> THEN "{}" ELSE "{\n" \o JsonDumpsItems(pairs, 1) \o "}"

\* bool(x) as a Python value.
PyBool(b) == [ty |-> "bool", v |-> IF b THEN "True" ELSE "False"]

\* An error text that uses the prefix of invoke's error envelopes.
ReadErrorTextAsInvoke(message) == "Error: " \o message

\* The text of an error envelope of handle_read_resource.
ReadErrorText(message) == "Error reading resource: " \o message

\* An envelope of a failed read that carries no error flag.
ReadErrorEnvelopeUnflagged(uri, message) ==
    [contents |-> <<[uri |-> uri, mimeType |-> MIME_TYPE_TEXT,
                     text |-> ReadErrorText(message)]>>]

\* The envelope of a failed read.
ReadErrorEnvelope(uri, message) ==
    [contents |-> <<[uri |-> uri, mimeType |-> MIME_TYPE_TEXT,
                     text |-> ReadErrorText(message)]>>,
     isError |-> TRUE]

\* The envelope of a read that fetched content.
ReadEnvelope(uri, content) ==
    [contents |-> <<[uri |-> uri, mimeType |-> MimeTypeOf(uri), text |-> content]>>]

\* A normalisation that does not look into an indirection: every argument
\* that is no str is taken by its text.
ActualUriIgnoringIndirection(uri) ==
    IF uri.ty # "str" THEN (IF Truthy(uri) THEN Str(PyStr(uri)) ELSE Str(""))
    ELSE uri

\* The normalisation of the argument: a dict gives its "uri" entry, another
\* non-str its text when it is truthy and "" when not.
ActualUri(uri) ==
    IF uri.ty = "dict" THEN DictGet(uri, "uri", Str(""))
    ELSE IF uri.ty # "str" THEN (IF Truthy(uri) THEN Str(PyStr(uri)) ELSE Str(""))
    ELSE uri

\* A configuration that shows the key itself.
ConfigDataDisclosing(client) ==
    <<[k |-> "host", val |-> Str(client.host)],
      [k |-> "has_api_key", val |-> client.api_key]>>

\* config_data: the client's host and whether it holds an API key.
ConfigData(client) ==
    <<[k |-> "host", val |-> Str(client.host)],
      [k |-> "has_api_key", val |-> PyBool(Truthy(client.api_key))]>>

\* handle_read_resource of a dispatcher constructed with the given client,
\* up to its first suspension: it returns (kind "done"), or awaits the
\* backend's list() or ps() (kind "await").
HandleReadResourceOf(client, uri) ==
    LET actual_uri == ActualUri(uri) IN
    IF actual_uri.ty # "str" \/ Strip(actual_uri.v) = ""
    THEN [kind |-> "done", uri |-> "", query |-> "",
          result |-> ReadErrorEnvelope(
              IF actual_uri.ty = "str" THEN actual_uri.v ELSE PyStr(uri),
              "Invalid URI")]
    ELSE IF actual_uri.v \notin ResourceUris
    THEN [kind |-> "done", uri |-> actual_uri.v, query |-> "",
          result |-> ReadErrorEnvelope(actual_uri.v,
                                       "Unknown resource: " \o actual_uri.v)]
    ELSE IF actual_uri.v = RESOURCE_URI_MODELS
    THEN [kind |-> "await", uri |-> actual_uri.v, query |-> "list", result |-> None]
    ELSE IF actual_uri.v = RESOURCE_URI_RUNNING
    THEN [kind |-> "await", uri |-> actual_uri.v, query |-> "ps", result |-> None]
    ELSE [kind |-> "done", uri |-> actual_uri.v, query |-> "",
          result |-> ReadEnvelope(actual_uri.v,
                                    JsonDumpsIndent2(ConfigData(client)))]

\* handle_read_resource of the dispatcher, constructed with OllamaClient.
HandleReadResource(uri) == HandleReadResourceOf(OllamaClient, uri)

(***************************** main.py *************************************)

\* main.handle_call_tool: the list of TextContent it returns to the
\* transport library, one per text item of the envelope.
MainHandleCallTool(envelope) ==
    LET texts == SelectSeq(envelope.content, LAMBDA item : item.type = "text")
    IN  [i \in 1..Len(texts) |-> [type |-> "text", text |-> texts[i].text]]

\* main.handle_read_resource: the text of the first content item.
MainHandleReadResource(envelope) ==
    IF envelope.contents # <<>> THEN envelope.contents[1].text ELSE ""

\* main.handle_list_tools: one MCPTool per listed tool.
MainHandleListTools(listing) == listing.tools

(***************************** inputs **************************************)

\* Names a caller passes to invoke: two registered, one well-formed and
\* not registered, one whose module has a definition and no handler, the
\* empty and a blank string, and a value that is no string.
Names ==
    {Str("ollama_list"), Str("ollama_ps"), Str("does-not-exist"),
     Str("ollama_orphan"), Str(""), Str("  "), PyNone}

\* Arguments a caller passes to invoke: maps with and without a format
\* entry, and a value that is no map.
ArgsInputs ==
    {Dict({}),
     Dict({[k |-> "format", val |-> Str("markdown")]}),
     Dict({[k |-> "format", val |-> Str("Markdown")]}),
     Dict({[k |-> "model", val |-> Str("llama3")],
           [k |-> "format", val |-> Str("json")]}),
     PyNone}

(***************************** server.py: prompts **************************)

PROMPT_EXPLAIN_LORA == "explain_lora"

PROMPT_CODE_REVIEW == "code_review"

PROMPT_HELLO_WORLD == "hello_world"

PROMPT_EXPLAIN_CODE == "explain_code"

PROMPT_WRITE_DOCSTRING == "write_docstring"

\* An argument of a PromptDefinition.
PromptArgument(name, required) == [name |-> name, required |-> required]

\* self._prompts after _initialize_default_prompts, by name (the arguments'
\* descriptions are left out).
Prompts ==
    [n \in {PROMPT_EXPLAIN_LORA, PROMPT_CODE_REVIEW, PROMPT_HELLO_WORLD,
            PROMPT_EXPLAIN_CODE, PROMPT_WRITE_DOCSTRING} |->
        CASE n = PROMPT_EXPLAIN_LORA ->
                [name |-> n,
                 description |-> "Explain LoRA (Low-Rank Adaptation) technique",
                 arguments |-> <<PromptArgument("detail_level", FALSE)>>]
          [] n = PROMPT_CODE_REVIEW ->
                [name |-> n,
                 description |-> "Review code and provide feedback",
                 arguments |-> <<PromptArgument("language", TRUE)>>]
          [] n = PROMPT_HELLO_WORLD ->
                [name |-> n,
                 description |-> "Generate Hello World code in any language",
                 arguments |-> <<PromptArgument("language", TRUE)>>]
          [] n = PROMPT_EXPLAIN_CODE ->
                [name |-> n,
                 description |-> "Explain what a code snippet does in detail",
                 arguments |-> <<PromptArgument("code", TRUE),
                                 PromptArgument("language", FALSE)>>]
          [] n = PROMPT_WRITE_DOCSTRING ->
                [name |-> n,
                 description |->
                     "Generate comprehensive docstring/documentation for code",
                 arguments |-> <<PromptArgument("code", TRUE),
                                 PromptArgument("language", TRUE),
                                 PromptArgument("style", FALSE)>>]]

\* The template of explain_lora.
ExplainLoraText(detail) ==
    "Explain LoRA (Low-Rank Adaptation) at a " \o detail \o " level.\n"
    \o "Include:\n"
    \o "- What it is and why it's useful\n"
    \o "- How it works technically\n"
    \o "- Use cases and benefits\n"
    \o "- Comparison with full fine-tuning"

\* The template of code_review: its first line, which carries the
\* substitution, and the two fixed lines that follow it.
CodeReviewText(language) ==
    "Review the following " \o language
    \o " code with focus on identifying potential bugs and correctness issues.\n"
    \o "You are a senior software engineer performing a deep code review. "
    \o "Your analysis should emphasize:\n"
    \o "\n"
    \o "1. Logic flaws or incorrect behavior\n"

\* The template of hello_world.
HelloWorldText(language) ==
    "Write a complete, well-commented Hello World program in " \o language \o ".\n"
    \o "Include:\n"
    \o "- Proper syntax and structure\n"
    \o "- Comments explaining each part\n"
    \o "- Best practices for the language\n"
    \o "- How to run the program"

\* The line of three grave accents that opens and closes the code in a
\* template (a string of this module cannot hold that character, so the
\* line is written with tildes).
Fence == "~~~"

\* The template of explain_code, up to the end of the fenced code.
ExplainCodeText(code, language) ==
    "Explain the following code"
    \o (IF language # "" THEN " (" \o language \o ")" ELSE "")
    \o " in detail:\n\n" \o Fence \o "\n" \o code \o "\n" \o Fence \o "\n"

\* The template of write_docstring, up to the end of the fenced code.
WriteDocstringText(code, language, style) ==
    "Generate comprehensive documentation"
    \o (IF style # "" THEN " in " \o style \o " style" ELSE "")
    \o " for the following " \o language \o " code:\n\n" \o Fence \o language
    \o "\n" \o code \o "\n" \o Fence \o "\n"

\* The message of the AttributeError "args.get" raises on a value that has
\* no get.
NoGetMessage(args) == "'" \o args.ty \o "' object has no attribute 'get'"

\* The prompt was generated: the return of lines 462-467.
PromptResult(name, prompt_text) ==
    [kind |-> "return",
     value |-> [description |-> Prompts[name].description,
                messages |-> <<[role |-> "user",
                                content |-> [type |-> "text",
                                             text |-> prompt_text]]>>]]

\* A statement inside the try block raises.
PromptRaise(message) == [kind |-> "raise", message |-> message]

\* Lines 373-460: the text of the prompt, by its name.
GeneratePrompt(name, args) ==
    IF args.ty # "dict" THEN PromptRaise(NoGetMessage(args))
    ELSE IF name = PROMPT_EXPLAIN_LORA
    THEN PromptResult(name,
            ExplainLoraText(PyStr(DictGet(args, "detail_level", Str("basic")))))
    ELSE IF name = PROMPT_CODE_REVIEW
    THEN PromptResult(name,
            CodeReviewText(PyStr(DictGet(args, "language", Str("Python")))))
    ELSE IF name = PROMPT_HELLO_WORLD
    THEN PromptResult(name,
            HelloWorldText(PyStr(DictGet(args, "language", Str("Python")))))
    ELSE IF name = PROMPT_EXPLAIN_CODE
    THEN IF ~Truthy(DictGet(args, "code", Str("")))
         THEN PromptRaise("The 'code' parameter is required for explain_code prompt")
         ELSE PromptResult(name,
                ExplainCodeText(PyStr(DictGet(args, "code", Str(""))),
                                PyStr(DictGet(args, "language", Str("")))))
    ELSE IF name = PROMPT_WRITE_DOCSTRING
    THEN IF ~Truthy(DictGet(args, "code", Str("")))
         THEN PromptRaise("The 'code' parameter is required for write_docstring prompt")
         ELSE PromptResult(name,
                WriteDocstringText(PyStr(DictGet(args, "code", Str(""))),
                                   PyStr(DictGet(args, "language", Str("python"))),
                                   PyStr(DictGet(args, "style", Str("")))))
    ELSE PromptResult(name, "Prompt template for " \o name)

\* The try block of handle_get_prompt, lines 365-467.
GetPromptBody(name, arguments) ==
    IF name \notin DOMAIN Prompts
    THEN PromptRaise("Unknown prompt: " \o name)
    ELSE GeneratePrompt(name, IF Truthy(arguments) THEN arguments ELSE Dict({}))

\* A get-prompt whose except clause returns an error envelope, as the
\* other operations' do.
GetPromptOnErrorEnveloping(message) ==
    [outcome |-> "returned", result |-> CreateErrorResponse(message)]

\* "except Exception as error: raise ValueError(f"Error getting prompt:
\* {str(error)}")" of handle_get_prompt.
GetPromptOnError(message) ==
    [outcome |-> "raised", result |-> [message |-> "Error getting prompt: " \o message]]

\* handle_get_prompt: the validation of the name, then the try block and
\* its except clause.
HandleGetPrompt(name, arguments) ==
    IF name.ty # "str" \/ Strip(name.v) = ""
    THEN [outcome |-> "raised", result |-> [message |-> "Invalid prompt name"]]
    ELSE IF GetPromptBody(name.v, arguments).kind = "raise"
    THEN GetPromptOnError(GetPromptBody(name.v, arguments).message)
    ELSE [outcome |-> "returned", result |-> GetPromptBody(name.v, arguments).value]

\* Names a caller passes to get-prompt.
PromptNameInputs ==
    {Str(PROMPT_EXPLAIN_LORA), Str(PROMPT_CODE_REVIEW), Str(PROMPT_HELLO_WORLD),
     Str(PROMPT_EXPLAIN_CODE), Str(PROMPT_WRITE_DOCSTRING),
     Str("does_not_exist"), Str(" explain_lora"), Str(""), Str("  "),
     PyNone, PyInt("5")}

\* Arguments a caller passes to get-prompt.
PromptArgumentInputs ==
    {PyNone, Dict({}),
     Dict({[k |-> "detail_level", val |-> Str("advanced")]}),
     Dict({[k |-> "language", val |-> Str("Rust")]}),
     Dict({[k |-> "code", val |-> Str("x = 1")]}),
     Dict({[k |-> "code", val |-> Str("")]}),
     Dict({[k |-> "code", val |-> Str("x = 1")],
           [k |-> "language", val |-> Str("go")],
           [k |-> "style", val |-> Str("google")]}),
     Str("code")}

\* What a handler returns: text that parses, text that does not, blank
\* text, the text of an error envelope, a value that is no text, and the
\* text of arrays nested one deeper than the decoder descends.
HandlerResults ==
    {Str("{\"y\": 2}"), Str("plain text result"), Str("[1, 2"), Str("  "),
     Str("Error: Unknown tool: does-not-exist"), PyNone,
     Str(Repeat("[", DecoderDepth + 1) \o Repeat("]", DecoderDepth + 1))}

\* The messages of the exceptions a handler raises.
HandlerErrors == {"Connection failed", ""}

\* Arguments a caller passes to read-resource.
UriInputs ==
    {Str(RESOURCE_URI_MODELS), Str(RESOURCE_URI_RUNNING), Str(RESOURCE_URI_CONFIG),
     Str("ollama://unknown"), Str(""), Str("  "),
     Dict({[k |-> "uri", val |-> Str(RESOURCE_URI_MODELS)]}),
     Dict({[k |-> "uri", val |-> Str("ollama://unknown")]}),
     Dict({[k |-> "uri", val |-> Str("")]}),
     Dict({[k |-> "uri", val |-> Str("  ")]}),
     Dict({[k |-> "uri", val |-> PyInt("5")]}),
     Dict({}), PyNone, PyInt("5")}

\* What the backend's list() and ps() return, as (key, value) pairs.
BackendData == {<<>>, <<[k |-> "models", val |-> EmptyList]>>}

\* The messages of the errors the backend client raises.
BackendErrors == {"Failed to connect to Ollama"}

\* The operations of the dispatcher that requests call.
Operations == {"list_tools", "call_tool", "read_resource", "get_prompt"}

(***************************** state ***************************************)

\* A request the transport has made a task for and that has not run yet.
Pending(op) == [pc |-> "pending", op |-> op]

\* The latest step completed no request.
NoRequest ==
    [op |-> "none", arg |-> PyNone, args |-> PyNone, outcome |-> "none",
     result |-> None, transport |-> None, calls |-> <<>>,
     handler_result |-> None, discovered |-> <<>>,
     registry_before |-> None, registry_after |-> None]

\* The identity of the next ToolRegistry object.
NextId == 1 + Cardinality({i \in 1..Len(discoverLog) : discoverLog[i] = "ok"})

\* The list/invoke requests in flight that have not reached the build.
PendingBuilders ==
    {t \in BagToSet(tasks) : t.pc = "pending" /\ t.op \in {"list_tools", "call_tool"}}

\* How the discovery this step may run can end ("none": it runs none).
BuildOutcomes ==
    IF NeedsBuild(tool_registry) THEN DiscoveryOutcomes ELSE {"none"}

\* No call of format_response has been made.
NotRendered == [calls |-> 0]

\* No call of json_to_markdown has been made.
NotShown == [calls |-> 0]

\* No invoke call: the place of a call that has not arrived or is over.
Idle == [pc |-> "idle"]

\* An invoke call the transport has made a task for and that has not run.
PendingCall == [pc |-> "pending"]

\* An event loop that holds no invoke call.
NoCalls == [i \in 1..MaxCalls |-> Idle]

\* No call of _post has been made.
NotPosted == [calls |-> 0]

\* A dispatcher that has not been constructed.
NotConstructed == [client |-> None, read |-> None]

\* No dispatcher of the two has been constructed.
NoDispatchers == [d \in {1, 2} |-> NotConstructed]

\* PID_FILE does not exist.
NoFile == [exists |-> FALSE]

\* An invocation of the control script that is not running.
NotRunning == [pc |-> "none"]

\* No PID file, no server, no invocation of the control script; overlapped
\* tells whether an invocation has started while another was running.
NoControl ==
    [pid_file |-> NoFile, alive |-> {}, launched |-> 0,
     scripts |-> [i \in 1..MaxScripts |-> NotRunning], overlapped |-> FALSE]

\* A server process in which main has not run yet.
NotStarted ==
    [pc |-> "not_started", loop |-> "running", ready |-> {},
     shutdown_event |-> FALSE, signals |-> {}, server_task |-> "none",
     shutdown_task |-> "none", client |-> "none", stdin |-> "open",
     handled |-> 0]

\* A dispatcher just constructed, "registry = ToolRegistry()" at the start
\* of a run of discovery, and a caller that has rendered nothing.
Init ==
    /\ tool_registry = None
    /\ tasks = EmptyBag
    /\ discoverLog = <<>>
    /\ raced = FALSE
    /\ last = NoRequest
    /\ registry = NewRegistry(0)
    /\ history = <<>>
    /\ rendered = NotRendered
    /\ markdown = NotShown
    /\ loop = NoCalls
    /\ posted = NotPosted
    /\ dispatchers = NoDispatchers
    /\ control = NoControl
    /\ process = NotStarted

\* The transport library receives a request and makes a task for it.
Arrive ==
    \E op \in Operations :
        /\ BagCardinality(tasks) < MaxTasks
        /\ tasks' = tasks (+) SetToBag({Pending(op)})
        /\ raced' = (raced \/ (/\ tool_registry = None
                               /\ op \in {"list_tools", "call_tool"}
                               /\ PendingBuilders # {}))
        /\ last' = NoRequest
        /\ UNCHANGED <<tool_registry, discoverLog, outsideDispatcher>>

\* A list-capabilities task runs: main.handle_list_tools around
\* OllamaMCPServer.handle_list_tools.
ListTools ==
    \E outcome \in BuildOutcomes :
        LET t == Pending("list_tools")
            r == HandleListTools(tool_registry, outcome, NextId)
        IN  /\ BagIn(t, tasks)
            /\ Len(discoverLog) + Len(r.discovered) <= MaxDiscover
            /\ tasks' = tasks (-) SetToBag({t})
            /\ tool_registry' = r.registry
            /\ discoverLog' = discoverLog \o r.discovered
            /\ last' = [NoRequest EXCEPT
                    !.op = "list_tools",
                    !.outcome = r.outcome,
                    !.result = r.result,
                    !.transport = IF r.outcome = "returned"
                                  THEN MainHandleListTools(r.result) ELSE None,
                    !.discovered = r.discovered,
                    !.registry_before = tool_registry,
                    !.registry_after = r.registry]
            /\ UNCHANGED <<raced, outsideDispatcher>>

\* An invoke task runs up to the handler's suspension, or to its return
\* when it returns before calling a handler.
CallTool ==
    \E name \in Names, args \in ArgsInputs, outcome \in BuildOutcomes :
        LET t == Pending("call_tool")
            r == HandleCallTool(name, args, tool_registry, outcome, NextId)
        IN  /\ BagIn(t, tasks)
            /\ Len(discoverLog) + Len(r.discovered) <= MaxDiscover
            /\ tool_registry' = r.registry
            /\ discoverLog' = discoverLog \o r.discovered
            /\ IF r.kind = "await"
               THEN /\ tasks' = (tasks (-) SetToBag({t})) (+) SetToBag({
                            [pc |-> "awaiting", op |-> "call_tool",
                             arg |-> name, args |-> args, calls |-> r.calls,
                             discovered |-> r.discovered,
                             registry_before |-> tool_registry,
                             registry_after |-> r.registry]})
                    /\ last' = NoRequest
               ELSE /\ tasks' = tasks (-) SetToBag({t})
                    /\ last' = [NoRequest EXCEPT
                            !.op = "call_tool", !.arg = name, !.args = args,
                            !.outcome = r.outcome,
                            !.result = r.result,
                            !.transport = IF r.outcome = "returned"
                                          THEN MainHandleCallTool(r.result)
                                          ELSE None,
                            !.calls = r.calls,
                            !.discovered = r.discovered,
                            !.registry_before = tool_registry,
                            !.registry_after = r.registry]
            /\ UNCHANGED <<raced, outsideDispatcher>>

\* The task of an awaited handler, completed with what the handler did.
CallCompleted(t, handler_result, c) ==
    [NoRequest EXCEPT
        !.op = "call_tool", !.arg = t.arg, !.args = t.args,
        !.outcome = c.outcome,
        !.result = c.result,
        !.transport = IF c.outcome = "returned"
                      THEN MainHandleCallTool(c.result) ELSE None,
        !.calls = t.calls,
        !.handler_result = handler_result,
        !.discovered = t.discovered,
        !.registry_before = t.registry_before,
        !.registry_after = t.registry_after]

\* An awaited handler returns: lines 119-135 of server.py, and lines 137-139
\* when the parse of the result raises what line 124 does not catch.
HandlerReturns ==
    \E t \in BagToSet(tasks), result \in HandlerResults :
        /\ t.pc = "awaiting" /\ t.op = "call_tool"
        /\ tasks' = tasks (-) SetToBag({t})
        /\ last' = CallCompleted(t, [kind |-> "return", value |-> result],
                        IF StructuredDataRaises(result)
                        THEN CallToolOnError(JsonLoads(result.v).message)
                        ELSE [outcome |-> "returned",
                              result |-> SuccessEnvelope(result)])
        /\ UNCHANGED <<tool_registry, discoverLog, raced, outsideDispatcher>>

\* An awaited handler raises an Exception with the given message.
HandlerRaises ==
    \E t \in BagToSet(tasks), message \in HandlerErrors :
        /\ t.pc = "awaiting" /\ t.op = "call_tool"
        /\ tasks' = tasks (-) SetToBag({t})
        /\ last' = CallCompleted(t, [kind |-> "raise", value |-> Str(message)],
                        CallToolOnError(message))
        /\ UNCHANGED <<tool_registry, discoverLog, raced, outsideDispatcher>>

\* A completed read-resource request.
ReadCompleted(arg, envelope) ==
    [NoRequest EXCEPT
        !.op = "read_resource", !.arg = arg,
        !.outcome = "returned",
        !.result = envelope,
        !.transport = Str(MainHandleReadResource(envelope)),
        !.registry_before = tool_registry,
        !.registry_after = tool_registry]

\* A read-resource task runs up to the backend query's suspension, or to
\* its return when it queries nothing.
ReadResource ==
    \E uri \in UriInputs :
        LET t == Pending("read_resource")
            r == HandleReadResource(uri)
        IN  /\ BagIn(t, tasks)
            /\ IF r.kind = "await"
               THEN /\ tasks' = (tasks (-) SetToBag({t})) (+) SetToBag({
                            [pc |-> "awaiting", op |-> "read_resource",
                             arg |-> uri, uri |-> r.uri, query |-> r.query]})
                    /\ last' = NoRequest
               ELSE /\ tasks' = tasks (-) SetToBag({t})
                    /\ last' = ReadCompleted(uri, r.result)
            /\ UNCHANGED <<tool_registry, discoverLog, raced, outsideDispatcher>>

\* The awaited list() or ps() returns: lines 304/307 and 317-325.
BackendReturns ==
    \E t \in BagToSet(tasks), data \in BackendData :
        /\ t.pc = "awaiting" /\ t.op = "read_resource"
        /\ tasks' = tasks (-) SetToBag({t})
        /\ last' = [ReadCompleted(t.arg, ReadEnvelope(t.uri, JsonDumpsIndent2(data)))
                        EXCEPT !.handler_result = [kind |-> "return", value |-> data]]
        /\ UNCHANGED <<tool_registry, discoverLog, raced, outsideDispatcher>>

\* The awaited list() or ps() raises: lines 327-338.
BackendRaises ==
    \E t \in BagToSet(tasks), message \in BackendErrors :
        /\ t.pc = "awaiting" /\ t.op = "read_resource"
        /\ tasks' = tasks (-) SetToBag({t})
        /\ last' = [ReadCompleted(t.arg, ReadErrorEnvelope(t.uri, message))
                        EXCEPT !.handler_result =
                                    [kind |-> "raise", value |-> Str(message)]]
        /\ UNCHANGED <<tool_registry, discoverLog, raced, outsideDispatcher>>

\* A get-prompt task runs: main.handle_get_prompt around
\* server.handle_get_prompt, which awaits nothing.  An exception is logged
\* and raised again by main.
GetPrompt ==
    \E name \in PromptNameInputs, arguments \in PromptArgumentInputs :
        LET t == Pending("get_prompt")
            r == HandleGetPrompt(name, arguments)
        IN  /\ BagIn(t, tasks)
            /\ tasks' = tasks (-) SetToBag({t})
            /\ last' = [NoRequest EXCEPT
                            !.op = "get_prompt", !.arg = name, !.args = arguments,
                            !.outcome = r.outcome, !.result = r.result,
                            !.registry_before = tool_registry,
                            !.registry_after = tool_registry]
            /\ UNCHANGED <<tool_registry, discoverLog, raced, outsideDispatcher>>

Next ==
    \/ Arrive
    \/ ListTools
    \/ CallTool
    \/ HandlerReturns
    \/ HandlerRaises
    \/ ReadResource
    \/ BackendReturns
    \/ BackendRaises
    \/ GetPrompt

Spec == Init /\ [][Next]_vars

(***************************** claims **************************************)

\* The latest step completed a request of this operation.
Completed(op) == last.op = op

\* The awaited handler or backend query of the completed request raised.
Raised(l) == "kind" \in DOMAIN l.handler_result /\ l.handler_result.kind = "raise"

\* The awaited handler or backend query of the completed request returned.
Returned(l) == "kind" \in DOMAIN l.handler_result /\ l.handler_result.kind = "return"

\* The invoke requests that await their handler.
AwaitingCalls == {t \in BagToSet(tasks) : t.pc = "awaiting" /\ t.op = "call_tool"}

C3_FailureBecomesErrorEnvelope ==
    /\ (Completed("call_tool") /\ Raised(last)) =>
          /\ last.outcome = "returned"
          /\ IsError(last.result)
          /\ last.result.content =
                <<[type |-> "text", text |-> "Error: " \o last.handler_result.value.v]>>
    /\ (Completed("call_tool") /\ last.discovered = <<"ImportError">>) =>
          /\ last.outcome = "returned"
          /\ IsError(last.result)
          /\ last.result.content =
                <<[type |-> "text", text |-> "Error: " \o ImportErrorMessage]>>

\* C3: a handler has raised "Connection failed" and the call has completed.
C3_Witness ==
    /\ Completed("call_tool")
    /\ Raised(last)
    /\ last.handler_result.value = Str("Connection failed")

\* The text items of an invoke or a read-resource envelope.
TextsOf(envelope) ==
    IF "content" \in DOMAIN envelope
    THEN {envelope.content[i].text : i \in 1..Len(envelope.content)}
    ELSE {envelope.contents[i].text : i \in 1..Len(envelope.contents)}

C5_ErrorFlagReachesTransport ==
    (Completed("call_tool") /\ last.outcome = "returned" /\ IsError(last.result)) =>
        last.transport #
            MainHandleCallTool(SuccessEnvelope(Str(last.result.content[1].text)))

\* The name of the completed invoke is bound to a handler in the registry
\* the call went on with.
Registered(l) ==
    /\ l.registry_after # None
    /\ l.arg.ty = "str"
    /\ \E h \in l.registry_after.handlers : h.name = l.arg.v

\* The handler a registry binds to a name.
BoundHandler(reg, name) == (CHOOSE h \in reg.handlers : h.name = name).handler

\* The name and the arguments of the completed invoke pass the input
\* validation: a string that is not blank, and a map.
WellFormed(l) ==
    /\ l.arg.ty = "str"
    /\ \E i \in 1..Len(l.arg.v) : Ch(l.arg.v, i) \notin Whitespace
    /\ l.args.ty = "dict"

\* C6, as stated: for every name that is not registered, invoke returns
\* (it does not raise) an envelope with isError true whose text contains
\* "Unknown tool: <name>", and executes no handler; the lookup of the name
\* gives the not-found value.
C6_UnregisteredNameIsUnknownTool ==
    (Completed("call_tool") /\ ~Registered(last)) =>
        /\ last.outcome = "returned"
        /\ IsError(last.result)
        /\ \E text \in TextsOf(last.result) :
              Contains(text, "Unknown tool: " \o PyStr(last.arg))
        /\ last.calls = <<>>
        /\ (last.registry_after # None /\ last.arg.ty = "str") =>
              GetHandler(last.registry_after, last.arg.v) = NoHandler

\* C6, amended: for every name that is not registered, invoke returns (it
\* does not raise) an envelope with isError true and executes no handler,
\* and the lookup of the name gives the not-found value;
\* its text is "Error: Unknown tool: <name>" when the name is a non-blank
\* string, the arguments are a map and the registry is built (before the
\* call or by it).  A blank or non-string name, arguments that are no map
\* and a failed build give the error envelope of that failure instead.
C6_WellFormedUnregisteredNameIsUnknownTool ==
    (Completed("call_tool") /\ ~Registered(last)) =>
        /\ last.outcome = "returned"
        /\ IsError(last.result)
        /\ last.calls = <<>>
        /\ (last.registry_after # None /\ last.arg.ty = "str") =>
              GetHandler(last.registry_after, last.arg.v) = NoHandler
        /\ (WellFormed(last) /\ last.registry_after # None) =>
              last.result.content =
                  <<[type |-> "text", text |-> "Error: Unknown tool: " \o last.arg.v]>>
        /\ (~WellFormed(last) \/ last.registry_after = None) =>
              \A text \in TextsOf(last.result) : ~Contains(text, "Unknown tool: ")

\* C6: an invoke of "does-not-exist" has completed against a built registry.
C6_Witness ==
    /\ Completed("call_tool")
    /\ last.arg = Str("does-not-exist")
    /\ last.args.ty = "dict"
    /\ last.registry_after # None
    /\ IsError(last.result)

\* C7: invoke with a name that is not a non-empty string, or with arguments
\* that are not a map, returns an error envelope, consults no discovery,
\* executes no handler and leaves the registry reference as it was.
C7_InvalidInputLeavesRegistryAlone ==
    (/\ Completed("call_tool")
     /\ \/ last.arg.ty # "str"
        \/ last.arg.v = ""
        \/ last.args.ty # "dict") =>
        /\ last.outcome = "returned"
        /\ IsError(last.result)
        /\ last.discovered = <<>>
        /\ last.calls = <<>>
        /\ last.registry_after = last.registry_before
        /\ tool_registry = last.registry_before

\* C7: an invoke with the empty name has completed while the registry was
\* unbuilt.
C7_Witness ==
    /\ Completed("call_tool")
    /\ last.arg = Str("")
    /\ last.args.ty = "dict"
    /\ last.registry_before = None
    /\ tool_registry = None

\* C8: when the handler returns a text, the envelope has exactly one content
\* item, the text, and no error flag, and structuredContent is the value the
\* text parses to as JSON, and null when it does not parse.
C8_SuccessEnvelope ==
    (Completed("call_tool") /\ Returned(last) /\ last.handler_result.value.ty = "str") =>
        LET text == last.handler_result.value.v
            parsed == JsonLoads(text)
        IN  /\ last.outcome = "returned"
            /\ ~IsError(last.result)
            /\ last.result.content = <<[type |-> "text", text |-> text]>>
            /\ last.result.structuredContent = IF parsed.ok THEN parsed.val ELSE JsonNull

\* C8: a handler has returned the text {"y": 2} and the envelope carries
\* the parsed value; the parsed value is not the text.
C8_Witness ==
    /\ Completed("call_tool")
    /\ Returned(last)
    /\ last.handler_result.value = Str("{\"y\": 2}")
    /\ last.result.structuredContent = "{\"y\":2}"

\* C9: for a registered name and an arguments map, invoke executes the bound
\* handler exactly once, with the dispatcher's client, the same map and the
\* format: Markdown exactly when the map's "format" entry is the string
\* "markdown", JSON otherwise.
C9_HandlerCalledOnceWithFormat ==
    /\ (Completed("call_tool") /\ Registered(last) /\ last.args.ty = "dict") =>
          last.calls =
            <<[handler |-> BoundHandler(last.registry_after, last.arg.v),
               client |-> OllamaClient,
               args |-> last.args,
               format |-> IF [k |-> "format", val |-> Str("markdown")] \in last.args.items
                          THEN ResponseFormatMarkdown
                          ELSE ResponseFormatJson]>>
    /\ \A t \in AwaitingCalls : Len(t.calls) = 1

\* C9: an invoke of a registered name with format "Markdown" (not
\* "markdown") has completed; its handler was called with JSON.
C9_Witness ==
    /\ Completed("call_tool")
    /\ Registered(last)
    /\ last.args.ty = "dict"
    /\ [k |-> "format", val |-> Str("Markdown")] \in last.args.items
    /\ Len(last.calls) = 1
    /\ last.calls[1].format = ResponseFormatJson

\* C10: when discovery raises, list-capabilities returns an empty tool list
\* and does not raise.
C10_ListToolsEmptyOnBuildFailure ==
    (Completed("list_tools") /\ last.discovered = <<"ImportError">>) =>
        /\ last.outcome = "returned"
        /\ last.result = [tools |-> <<>>]
        /\ last.transport = <<>>

\* C10: a listing whose discovery raised has completed.
C10_Witness ==
    /\ Completed("list_tools")
    /\ last.discovered = <<"ImportError">>
    /\ last.registry_after = None

(***************************** registry construction ***********************)

\* The handlers module attributes and register calls bind.
Handlers == {"alpha_handler", "other_handler"}

\* The candidate modules pkgutil.iter_modules can yield: modules that
\* register (two of them under the same tool name), and modules that the
\* loop skips for each of its reasons; the names cover the permitted
\* character set, a leading hyphen or underscore, the empty and a blank
\* name, and characters outside the set.
Candidates ==
    {Module("__init__", TRUE, "absent", "", NoHandler),
     Module("__hidden", TRUE, "ToolDefinition", "hidden", "other_handler"),
     Module("broken", FALSE, "absent", "", NoHandler),
     Module("helpers", TRUE, "absent", "", NoHandler),
     Module("alpha", TRUE, "ToolDefinition", "alpha", "alpha_handler"),
     Module("alpha_v2", TRUE, "ToolDefinition", "alpha", "other_handler"),
     Module("beta", TRUE, "dict", "beta-2_b", "other_handler"),
     Module("orphan", TRUE, "ToolDefinition", "orphan", NoHandler),
     Module("notadef", TRUE, "other", "", "other_handler"),
     Module("ctor", TRUE, "ToolDefinition", "-dash", "other_handler"),
     Module("under", TRUE, "dict", "_under", "alpha_handler"),
     Module("empty", TRUE, "dict", "", "alpha_handler"),
     Module("blank", TRUE, "dict", "  ", "alpha_handler"),
     Module("spaced", TRUE, "dict", "bad name!", "alpha_handler"),
     Module("dotted", TRUE, "dict", "al.pha", "alpha_handler")}

\* The definitions direct register calls are given.
Definitions ==
    {ToolDefinition("alpha", "About alpha", "schema of alpha"),
     ToolDefinition("alpha", "Another alpha", "schema requiring x"),
     ToolDefinition("beta", "About beta", "schema of beta")}

\* registry.register raises TypeError for a handler that is not callable.
RegisterRaises(tool_def, handler) == handler = NoHandler

\* The exception of an earlier iteration has ended the loop.
Aborted == \E i \in 1..Len(history) : history[i].ev = "module" /\ history[i].raised

\* The state after an iteration that ended as r.
Scanned(m, r) ==
    /\ registry' = r.registry
    /\ history' = Append(history, [ev |-> "module", module |-> m,
                                   raised |-> r.raised, counted |-> r.counted])

\* One more iteration of "for _, module_name, _ in pkgutil.iter_modules".
ScanModule ==
    \E m \in Candidates :
        /\ Len(history) < MaxHistory
        /\ ~Aborted
        /\ Scanned(m, DiscoverModule(m, registry))
        /\ UNCHANGED outsideRegistry

\* A caller registers a definition with a handler.
RegisterCall ==
    \E tool_def \in Definitions, handler \in Handlers \cup {NoHandler} :
        /\ Len(history) < MaxHistory
        /\ registry' = IF RegisterRaises(tool_def, handler)
                       THEN registry
                       ELSE Register(registry, tool_def, handler)
        /\ history' = Append(history, [ev |-> "register", def |-> tool_def,
                                       handler |-> handler])
        /\ UNCHANGED outsideRegistry

NextRegistry ==
    \/ ScanModule
    \/ RegisterCall

\* Every sequence of scanned modules and register calls on one registry.
SpecRegistry == Init /\ [][NextRegistry]_vars

\* A module the loop registers: not skipped by its name, importable, with
\* a definition (given as a ToolDefinition or as a dict) whose name the
\* validator accepts, and with a handler.
Registers(m) ==
    /\ ~StartsWith(m.module_name, "__")
    /\ m.loads
    /\ m.kind \in {"dict", "ToolDefinition"}
    /\ ValidateName(m.def.name)
    /\ m.handler # NoHandler

\* The entry e of the history made a registration.
EventRegisters(e) ==
    IF e.ev = "module" THEN Registers(e.module) ELSE e.handler # NoHandler

\* The definition and the handler of a registration.
EventDef(e) == IF e.ev = "module" THEN e.module.def ELSE e.def

EventHandler(e) == IF e.ev = "module" THEN e.module.handler ELSE e.handler

\* The registrations made on the registry, in order.
Registrations == SelectSeq(history, EventRegisters)

\* C11: after every sequence of register calls (and so after every
\* discovery) the names of the definitions in the registry's list are
\* pairwise distinct, and every listed definition has exactly one handler
\* in the name-to-handler map.
C11_NamesUniqueAndOneHandlerEach ==
    /\ \A i, j \in 1..Len(registry.tools) :
          i # j => registry.tools[i].name # registry.tools[j].name
    /\ \A i \in 1..Len(registry.tools) :
          Cardinality({h \in registry.handlers :
                          h.name = registry.tools[i].name}) = 1

\* C12: when a second definition is registered under a name that is
\* already registered, the handler returned for that name afterwards is
\* still the one registered first.
C12_FirstRegistrationKeepsItsHandler ==
    \A i \in 1..Len(Registrations) :
        (\A j \in 1..(i - 1) :
            EventDef(Registrations[j]).name # EventDef(Registrations[i]).name)
        => GetHandler(registry, EventDef(Registrations[i]).name)
              = EventHandler(Registrations[i])

\* C13: list-capabilities returns exactly the registered definitions, one
\* entry per registration and in registration order, each with its
\* declared name, description and input schema.
C13_ListingIsRegistrationsInOrder ==
    /\ HandleListTools(registry, "none", 0).outcome = "returned"
    /\ HandleListTools(registry, "none", 0).result.tools =
          [i \in 1..Len(Registrations) |->
              [name |-> EventDef(Registrations[i]).name,
               description |-> EventDef(Registrations[i]).description,
               inputSchema |-> EventDef(Registrations[i]).input_schema]]
    /\ MainHandleListTools(HandleListTools(registry, "none", 0).result)
          = HandleListTools(registry, "none", 0).result.tools

\* C13: "alpha" (schema requiring x) and then "beta" are registered, and
\* the listing gives both, alpha first.
C13_Witness ==
    /\ Len(Registrations) = 2
    /\ HandleListTools(registry, "none", 0).result.tools =
          <<[name |-> "alpha", description |-> "Another alpha",
             inputSchema |-> "schema requiring x"],
            [name |-> "beta", description |-> "About beta",
             inputSchema |-> "schema of beta"]>>

\* Nothing but the discovery loop has acted on the registry.
DiscoveryOnly == \A i \in 1..Len(history) : history[i].ev = "module"

\* A candidate that has a valid definition and a handler: it loads, its
\* tool_definition is a ToolDefinition or a dict whose name the validator
\* accepts, and it has a callable *_handler attribute.
HasValidDefinitionAndHandler(m) ==
    /\ m.loads
    /\ m.kind \in {"dict", "ToolDefinition"}
    /\ ValidateName(m.def.name)
    /\ m.handler # NoHandler

\* The definitions of a sequence of entries of the history, in order.
DefsOf(events) == [i \in 1..Len(events) |-> EventDef(events[i])]

\* The entry e of the history is a candidate with a valid definition and a
\* handler.
EventHasValidDefinitionAndHandler(e) == HasValidDefinitionAndHandler(e.module)

PermittedChars == Letters \cup Digits \cup {"-", "_"}

\* The name contains only the permitted character set.
OnlyPermittedChars(name) == \A i \in 1..Len(name) : Ch(name, i) \in PermittedChars

\* A candidate that lacks nothing but, possibly, an acceptable name: its
\* module is not skipped by its name and loads, it gives a definition (a
\* ToolDefinition its body constructs, or a dict) and it has a handler.
CompleteButForName(m) ==
    /\ ~StartsWith(m.module_name, "__")
    /\ m.loads
    /\ m.kind \in {"dict", "ToolDefinition"}
    /\ m.handler # NoHandler

\* C15, as stated: registry construction accepts a candidate exactly when
\* its name contains only alphanumerics, hyphens and underscores, and
\* rejects or skips every other candidate without aborting the build.
C15_PermittedCharsetIsAccepted ==
    \A i \in 1..Len(history) :
        (history[i].ev = "module" /\ CompleteButForName(history[i].module)) =>
            /\ ~history[i].raised
            /\ history[i].counted = "loaded"
                  <=> OnlyPermittedChars(history[i].module.def.name)

\* C15, amended: registry construction accepts a candidate exactly when
\* its name is not empty, begins with an alphanumeric character and
\* contains only alphanumerics, hyphens and underscores; every other
\* candidate (also one whose name is empty or begins with a hyphen or an
\* underscore) is rejected or skipped without aborting the build, and its
\* name is not in the registry.
C15_WellFormedNameIsAccepted ==
    /\ \A i \in 1..Len(history) :
          (history[i].ev = "module" /\ CompleteButForName(history[i].module)) =>
              /\ ~history[i].raised
              /\ history[i].counted = "loaded"
                    <=> /\ Len(history[i].module.def.name) > 0
                        /\ Ch(history[i].module.def.name, 1) \in Letters \cup Digits
                        /\ OnlyPermittedChars(history[i].module.def.name)
    /\ \A k \in 1..Len(registry.tools) :
          /\ Ch(registry.tools[k].name, 1) \in Letters \cup Digits
          /\ OnlyPermittedChars(registry.tools[k].name)

\* C15: the loop skipped the candidate named "_under" and then accepted
\* the candidate named "beta-2_b".
C15_Witness ==
    /\ Len(history) >= 2
    /\ history[1].ev = "module" /\ history[2].ev = "module"
    /\ history[1].module.def.name = "_under"
    /\ history[1].counted = "failed"
    /\ history[2].module.def.name = "beta-2_b"
    /\ history[2].counted = "loaded"
    /\ Len(registry.tools) = 1

\* The texts of the content items of a read-resource envelope.
ReadTextsOf(envelope) ==
    {envelope.contents[i].text : i \in 1..Len(envelope.contents)}

\* The completed read-resource was given a URI (bare or in an indirection)
\* that is a non-blank string and is not in the resource catalog.
ReadOfUnknownUri ==
    /\ Completed("read_resource")
    /\ ActualUri(last.arg).ty = "str"
    /\ Strip(ActualUri(last.arg).v) # ""
    /\ ActualUri(last.arg).v \notin ResourceUris

\* C16: read-resource never raises: for a URI that is not in the resource
\* catalog, and for any failure of the backend query behind a known URI,
\* it returns an envelope with isError true whose text contains the failure
\* message ("Unknown resource: <uri>" for an unknown URI).
C16_ReadFailureBecomesErrorEnvelope ==
    /\ Completed("read_resource") => last.outcome = "returned"
    /\ ReadOfUnknownUri =>
          /\ IsError(last.result)
          /\ \E text \in ReadTextsOf(last.result) :
                Contains(text, "Unknown resource: " \o ActualUri(last.arg).v)
          /\ last.handler_result = None
    /\ (Completed("read_resource") /\ Raised(last)) =>
          /\ ActualUri(last.arg).v \in {RESOURCE_URI_MODELS, RESOURCE_URI_RUNNING}
          /\ IsError(last.result)
          /\ \E text \in ReadTextsOf(last.result) :
                Contains(text, last.handler_result.value.v)

\* C16: a read of "ollama://unknown" has completed with an error envelope.
C16_Witness ==
    /\ ReadOfUnknownUri
    /\ last.arg = Str("ollama://unknown")
    /\ IsError(last.result)

\* The completed read-resource was given an indirection that carries a
\* field uri whose value is a string.
ReadThroughIndirection ==
    /\ Completed("read_resource")
    /\ last.arg.ty = "dict"
    /\ \E it \in last.arg.items : it.k = "uri" /\ it.val.ty = "str"

\* The string an indirection carries in its field uri.
CarriedUri(arg) == (CHOOSE it \in arg.items : it.k = "uri").val

\* What read-resource returns for the bare string u when its backend
\* query, if it makes one, ends as handler_result.
BareRead(u, handler_result) ==
    IF handler_result = None THEN HandleReadResource(u).result
    ELSE IF handler_result.kind = "return"
    THEN ReadEnvelope(u.v, JsonDumpsIndent2(handler_result.value))
    ELSE ReadErrorEnvelope(u.v, handler_result.value.v)

\* The completed read-resource was given an empty or blank uri, bare or in
\* an indirection, or an indirection without the field, or None.
ReadOfBlankUri ==
    /\ Completed("read_resource")
    /\ \/ last.arg.ty = "str" /\ Strip(last.arg.v) = ""
       \/ last.arg.ty = "NoneType"
       \/ /\ last.arg.ty = "dict"
          /\ \A it \in last.arg.items :
                it.k = "uri" => (it.val.ty = "str" /\ Strip(it.val.v) = "")

\* C17: read-resource given an indirection that carries uri = u returns the
\* envelope it returns for the bare string u (the backend query, if any,
\* ending the same way), and an empty, blank or missing uri yields an error
\* envelope without any backend call.
C17_IndirectionReadsAsBareString ==
    /\ ReadThroughIndirection =>
          /\ last.result = BareRead(CarriedUri(last.arg), last.handler_result)
          /\ (last.handler_result = None)
                = (HandleReadResource(CarriedUri(last.arg)).kind = "done")
    /\ ReadOfBlankUri =>
          /\ last.outcome = "returned"
          /\ IsError(last.result)
          /\ last.handler_result = None
    /\ \A t \in BagToSet(tasks) :
          (t.pc = "awaiting" /\ t.op = "read_resource") =>
              /\ Strip(t.uri) # ""
              /\ t.arg.ty = "dict" =>
                    /\ \E it \in t.arg.items : it.k = "uri" /\ it.val = Str(t.uri)
                    /\ HandleReadResource(Str(t.uri)).query = t.query

\* C17: a read given {"uri": "ollama://models"} has completed with the
\* backend's data, as the read of the bare string does.
C17_Witness ==
    /\ ReadThroughIndirection
    /\ CarriedUri(last.arg) = Str(RESOURCE_URI_MODELS)
    /\ Returned(last)
    /\ ~IsError(last.result)
    /\ last.result.contents[1].uri = RESOURCE_URI_MODELS

(***************************** claims: get-prompt **************************)

\* The name of the completed get-prompt is no key of the prompt catalog.
NotInCatalog(l) == l.arg.ty # "str" \/ l.arg.v \notin DOMAIN Prompts

\* The name of the completed get-prompt is a string that is not blank.
NonBlankName(l) == l.arg.ty = "str" /\ Strip(l.arg.v) # ""

\* C18, as stated: get-prompt raises instead of enveloping; for every name
\* that is not in the prompt catalog it raises an error whose message
\* contains "Unknown prompt", and it never returns an envelope with an
\* error flag.
C18_NameOutsideCatalogRaisesUnknownPrompt ==
    Completed("get_prompt") =>
        /\ NotInCatalog(last) =>
              /\ last.outcome = "raised"
              /\ Contains(last.result.message, "Unknown prompt")
        /\ last.outcome = "returned" => "isError" \notin DOMAIN last.result

\* C18, amended: for every name that is not in the prompt catalog get-prompt
\* raises and returns nothing; the message is "Error getting prompt: Unknown
\* prompt: <name>" when the name is a string that is not blank, and
\* "Invalid prompt name", without "Unknown prompt", when the name is no
\* string or is empty or blank.  Whatever it returns has no error flag.
C18_NameOutsideCatalogRaises ==
    Completed("get_prompt") =>
        /\ NotInCatalog(last) =>
              /\ last.outcome = "raised"
              /\ NonBlankName(last) =>
                    last.result.message =
                        "Error getting prompt: Unknown prompt: " \o last.arg.v
              /\ ~NonBlankName(last) =>
                    /\ last.result.message = "Invalid prompt name"
                    /\ ~Contains(last.result.message, "Unknown prompt")
        /\ last.outcome = "returned" =>
              /\ "isError" \notin DOMAIN last.result
              /\ ~NotInCatalog(last)

\* C18: a get-prompt of "does_not_exist" has raised.
C18_Witness ==
    /\ Completed("get_prompt")
    /\ last.arg = Str("does_not_exist")
    /\ last.outcome = "raised"
    /\ Contains(last.result.message, "Unknown prompt")

(***************************** response_formatter.py ***********************)
(* format_response in the canonical (JSON) format.  A list is the sequence *)
(* of its elements and a dict the sequence of its (key, value) pairs in    *)
(* insertion order, so a value is a tree; its Markdown branches call       *)
(* json_to_markdown.                                                       *)

\* A float, by its repr.
PyFloat(s) == [ty |-> "float", v |-> s]

\* A list, by the sequence of its elements.
PyList(elems) == [ty |-> "list", elems |-> elems]

\* A dict with str keys, by the sequence of its (key, value) pairs.
PyDict(pairs) == [ty |-> "dict", pairs |-> pairs]

\* A set: a value json.dumps has no encoding for.
PySet == [ty |-> "set", v |-> "set()"]

\* What json.dumps returned.
Encoded(text) == [ok |-> TRUE, text |-> text, err |-> "", message |-> ""]

\* What json.dumps raised.
EncodeRaises(err, message) == [ok |-> FALSE, text |-> "", err |-> err, message |-> message]

\* ESCAPE_DCT of json.encoder, for the characters a text of this model
\* holds (printable ASCII, tab, newline, carriage return).
EscapeChar(c) ==
    CASE c = "\"" -> "\\\""
      [] c = "\\" -> "\\\\"
      [] c = "\n" -> "\\n"
      [] c = "\r" -> "\\r"
      [] c = "\t" -> "\\t"
      [] OTHER -> c

RECURSIVE EscapeFrom(_, _)
EscapeFrom(s, i) ==
    IF i > Len(s) THEN "" ELSE EscapeChar(Ch(s, i)) \o EscapeFrom(s, i + 1)

\* encode_basestring_ascii(s): the JSON string of a str.
EncodeBasestringAscii(s) == "\"" \o EscapeFrom(s, 1) \o "\""

\* floatstr: the repr of a float, but for the three that have no JSON
\* number.
FloatStr(x) ==
    CASE x.v = "nan" -> "NaN"
      [] x.v = "inf" -> "Infinity"
      [] x.v = "-inf" -> "-Infinity"
      [] OTHER -> x.v

\* The encoding of None, a bool, an int, a float or a str.
EncodeScalar(x) ==
    CASE x.ty = "NoneType" -> "null"
      [] x.ty = "bool" -> (IF x.v = "True" THEN "true" ELSE "false")
      [] x.ty = "str" -> EncodeBasestringAscii(x.v)
      [] x.ty = "float" -> FloatStr(x)
      [] OTHER -> x.v

\* The recursion a list or dict inside `level` others needs is within the
\* limit.  The C encoder (no indent) counts each list and dict it enters,
\* as the scanner does.  With an indent the encoder is the Python one: a
\* generator per list and dict, which reaches one level further.
ContainerFits(indent, level) ==
    level < RecursionLimit + (IF indent THEN 1 ELSE 0)

\* The calls the Python encoder makes to encode a scalar inside a list or
\* dict: floatstr and float.__repr__ for a float, one call for the others.
ScalarCost(x) == IF x.ty = "float" THEN 2 ELSE 1

\* The recursion a scalar inside `level` lists and dicts needs is within
\* the limit.  The C encoder makes no counted call for a scalar.
ScalarFits(x, indent, level) ==
    ~indent \/ level + ScalarCost(x) <= RecursionLimit + 1

\* The RecursionError of the encoder.
EncoderRecursion(indent) ==
    EncodeRaises("RecursionError",
        IF indent
        THEN "maximum recursion depth exceeded while calling a Python object"
        ELSE "maximum recursion depth exceeded while encoding a JSON object")

\* The newline and indentation before an item or a closing bracket at the
\* given level, with indent=2; nothing without an indent.
NewlineIndent(indent, level) ==
    IF indent THEN "\n" \o Repeat("  ", level) ELSE ""

\* item_separator: "," with an indent (the newline follows), ", " without.
ItemSeparator(indent) == IF indent THEN "," ELSE ", "

RECURSIVE Encode(_, _, _)
RECURSIVE EncodeItems(_, _, _, _, _)

\* The items from i on of a list or dict (open = "[" or "{") inside
\* `level` others, with item i encoded to r; acc is the text so far.
EncodeAfterItem(x, i, indent, level, acc, r) ==
    IF ~r.ok THEN r
    ELSE IF i = Len(IF x.ty = "list" THEN x.elems ELSE x.pairs)
    THEN Encoded(acc \o r.text \o NewlineIndent(indent, level)
                    \o (IF x.ty = "list" THEN "]" ELSE "}"))
    ELSE EncodeItems(x, i + 1, indent, level,
                     acc \o r.text \o ItemSeparator(indent)
                         \o NewlineIndent(indent, level + 1))

\* _iterencode_list and _iterencode_dict from item i on.
EncodeItems(x, i, indent, level, acc) ==
    IF x.ty = "list"
    THEN EncodeAfterItem(x, i, indent, level, acc,
                         Encode(x.elems[i], indent, level + 1))
    ELSE EncodeAfterItem(x, i, indent, level,
                         acc \o EncodeBasestringAscii(x.pairs[i].k) \o ": ",
                         Encode(x.pairs[i].val, indent, level + 1))

\* _iterencode: the encoding of x inside `level` lists and dicts.
Encode(x, indent, level) ==
    IF x.ty = "list" \/ x.ty = "dict"
    THEN IF ~ContainerFits(indent, level) THEN EncoderRecursion(indent)
         ELSE IF x.ty = "list" /\ x.elems = <<>> THEN Encoded("[]")
         ELSE IF x.ty = "dict" /\ x.pairs = <<>> THEN Encoded("{}")
         ELSE EncodeItems(x, 1, indent, level,
                          (IF x.ty = "list" THEN "[" ELSE "{")
                              \o NewlineIndent(indent, level + 1))
    ELSE IF x.ty = "set"
    THEN EncodeRaises("TypeError", "Object of type set is not JSON serializable")
    ELSE IF level > 0 /\ ~ScalarFits(x, indent, level)
    THEN EncoderRecursion(indent)
    ELSE Encoded(EncodeScalar(x))

\* json.dumps(x) and, with indent, json.dumps(x, indent=2).
JsonDumps(x, indent) == Encode(x, indent, 0)

\* format_response returned the text.
FormatReturns(text) == [kind |-> "return", value |-> text]

\* format_response raised.
FormatRaises(err, message) == [kind |-> "raise", err |-> err, message |-> message]

\* What format_response does with what a json.dumps outside any try block
\* did.
FormatDumped(r) ==
    IF r.ok THEN FormatReturns(r.text) ELSE FormatRaises(r.err, r.message)

\* Lines 57-70: a str in the JSON format, with json.loads(content) = parsed.
\* The try block catches json.JSONDecodeError only.
ValidateOrWrap(content, parsed) ==
    IF parsed.ok THEN FormatReturns(content)
    ELSE IF parsed.err = "JSONDecodeError"
    THEN FormatDumped(JsonDumps(
            PyDict(<<[k |-> "error", val |-> Str("Invalid JSON content")],
                     [k |-> "raw_content", val |-> Str(content)]>>), FALSE))
    ELSE FormatRaises(parsed.err, parsed.message)

\* Lines 42-49: a dict or list in the JSON format, with
\* json.dumps(content, indent=2) = r.  The try block catches TypeError and
\* ValueError.
SerializeOrWrap(r) ==
    IF r.ok THEN FormatReturns(r.text)
    ELSE IF r.err \in {"TypeError", "ValueError"}
    THEN FormatDumped(JsonDumps(
            PyDict(<<[k |-> "error", val |-> Str("Failed to serialize content")],
                     [k |-> "details", val |-> Str(r.message)]>>), FALSE))
    ELSE FormatRaises(r.err, r.message)

\* format_response(content, format) for the JSON format and for a format
\* that is none.
FormatResponse(content, format) ==
    IF format \notin {ResponseFormatJson, ResponseFormatMarkdown}
    THEN FormatRaises("ValueError", "Unsupported format: " \o format)
    ELSE IF content.ty \in {"dict", "list"}
    THEN SerializeOrWrap(JsonDumps(content, TRUE))
    ELSE IF content.ty = "str"
    THEN ValidateOrWrap(content.v, JsonLoads(content.v))
    ELSE FormatDumped(JsonDumps(content, FALSE))

\* n lists, one inside the other, around leaf.
RECURSIVE NestList(_, _)
NestList(n, leaf) == IF n <= 0 THEN leaf ELSE PyList(<<NestList(n - 1, leaf)>>)

\* n dicts, one inside the other, around leaf.
RECURSIVE NestDict(_, _)
NestDict(n, leaf) ==
    IF n <= 0 THEN leaf ELSE PyDict(<<[k |-> "a", val |-> NestDict(n - 1, leaf)]>>)

\* None, bools, ints and floats a caller passes.
ScalarInputs ==
    {PyNone, PyBool(TRUE), PyBool(FALSE), PyInt("0"), PyInt("-12"),
     PyFloat("1.5"), PyFloat("nan")}

\* Texts a caller passes: that parse, that do not, blank, with characters
\* the encoder escapes, and of arrays and objects nested up to past the
\* recursion limit, closed and not.
TextInputs ==
    {Str(s) : s \in {"{\"y\": 2}", " [1, 2 ,3] ", "null", "12", "\"q\"",
                     "plain text result", "[1, 2", "", "  ",
                     "say \"hi\"\n", "a\\b\tc", "{\"a\": [1, {\"b\": null}]} x"}}
    \cup {Str(Repeat("[", n) \o Repeat("]", n)) : n \in 1..(RecursionLimit + 1)}
    \cup {Str(Repeat("[", n)) : n \in RecursionLimit..(RecursionLimit + 1)}
    \cup {Str(Repeat("{\"a\": ", n) \o "1" \o Repeat("}", n)) :
            n \in RecursionLimit..(RecursionLimit + 1)}

\* What a list or dict a caller passes holds at its innermost.
Leaves == ScalarInputs \cup {Str("q\"\n"), PyList(<<>>), PyDict(<<>>), PySet}

\* Lists and dicts a caller passes: empty, of one and two items, and nested
\* up to past the recursion limit.
CompositeInputs ==
    {PyList(<<>>), PyDict(<<>>),
     PyList(<<PyInt("1"), Str("two")>>),
     PyList(<<PySet, NestList(RecursionLimit + 2, PyList(<<>>))>>),
     PyList(<<NestList(RecursionLimit + 2, PyList(<<>>)), PySet>>),
     PyDict(<<[k |-> "models", val |-> PyList(<<PyDict(<<[k |-> "name",
                                                          val |-> Str("llama3")]>>),
                                                PyNone>>)],
              [k |-> "count", val |-> PyInt("1")]>>)}
    \cup {NestList(n, leaf) : n \in 1..(RecursionLimit + 2), leaf \in Leaves}
    \cup {NestDict(n, leaf) : n \in 1..(RecursionLimit + 2), leaf \in Leaves}

\* The values a caller passes to format_response.
FormatInputs == ScalarInputs \cup {PySet} \cup TextInputs \cup CompositeInputs

\* The formats a caller passes: the canonical one, and one that is none.
FormatArguments == {ResponseFormatJson, "xml"}

\* A caller renders a value.
Render ==
    \E content \in FormatInputs, format \in FormatArguments :
        /\ rendered' = [calls |-> 1, content |-> content, format |-> format,
                        first |-> FormatResponse(content, format)]
        /\ UNCHANGED outsideFormatter

\* The caller renders what the first call returned.
RenderAgain ==
    /\ rendered.calls = 1
    /\ rendered.first.kind = "return"
    /\ rendered' = [calls |-> 2, content |-> rendered.content,
                    format |-> rendered.format, first |-> rendered.first,
                    second |-> FormatResponse(Str(rendered.first.value),
                                              rendered.format)]
    /\ UNCHANGED outsideFormatter

NextFormatter ==
    \/ Render
    \/ RenderAgain

SpecFormatter == Init /\ [][NextFormatter]_vars

(***************************** claims: renderer ****************************)

\* The value of the latest render was rendered in the JSON format.
RenderedCanonical(calls) ==
    rendered.calls >= calls /\ rendered.format = ResponseFormatJson

\* x is a map, a list, a text, a number, a boolean or null, and so is what
\* it holds.
RECURSIVE JsonLike(_)
JsonLike(x) ==
    CASE x.ty = "list" -> \A i \in 1..Len(x.elems) : JsonLike(x.elems[i])
      [] x.ty = "dict" -> \A i \in 1..Len(x.pairs) : JsonLike(x.pairs[i].val)
      [] OTHER -> x.ty \in {"str", "int", "float", "bool", "NoneType"}

\* C19, as stated: canonical rendering is idempotent: for every JSON-like
\* value x, format_response(format_response(x, JSON), JSON) equals
\* format_response(x, JSON).
C19_CanonicalRenderIsIdempotent ==
    (RenderedCanonical(2) /\ JsonLike(rendered.content)) =>
        rendered.second = rendered.first

\* C20, as stated: for every text in the JSON format, format_response
\* returns the text unchanged when it parses and otherwise the
\* serialization of {"error": "Invalid JSON content", "raw_content": <the
\* text>}; it never raises for a text.
C20_ValidateOrWrapNeverRaises ==
    (RenderedCanonical(1) /\ rendered.content.ty = "str") =>
        /\ rendered.first.kind = "return"
        /\ rendered.first.value =
              IF JsonLoads(rendered.content.v).ok
              THEN rendered.content.v
              ELSE "{\"error\": \"Invalid JSON content\", \"raw_content\": "
                      \o EncodeBasestringAscii(rendered.content.v) \o "}"

(***************************** response_formatter.py: Markdown *************)
(* json_to_markdown tells one list or dict from another by id(), so here   *)
(* the lists and dicts of a value live in a heap: a sequence of objects,   *)
(* the id of an object being its position.  An item of a list and a value  *)
(* of a dict is a scalar or a reference to an object of the heap.          *)

MAX_RECURSION_DEPTH == 100

MAX_TABLE_CELL_LENGTH == 50

\* A reference to the object of the heap with the given id.
Ref(id) == [ty |-> "ref", id |-> id]

\* isinstance(v, (dict, list))
IsComposite(v) == v.ty = "ref"

\* isinstance(v, dict)
IsDict(h, v) == v.ty = "ref" /\ h[v.id].ty = "dict"

\* str.replace(c, r) for a single character c.
RECURSIVE ReplaceChar(_, _, _)
ReplaceChar(s, c, r) ==
    IF s = "" THEN ""
    ELSE (IF Ch(s, 1) = c THEN r ELSE Ch(s, 1))
            \o ReplaceChar(SubSeq(s, 2, Len(s)), c, r)

\* The characters escape_markdown escapes after the backslash, in its
\* order (the grave accent, fourth of them, is in no text of this model).
MarkdownSpecials == <<"|", "*", "_", "[", "]", "#">>

\* The loop of escape_markdown from the i-th special character on.
RECURSIVE EscapeSpecials(_, _)
EscapeSpecials(text, i) ==
    IF i > Len(MarkdownSpecials) THEN text
    ELSE EscapeSpecials(
            ReplaceChar(text, MarkdownSpecials[i], "\\" \o MarkdownSpecials[i]),
            i + 1)

\* escape_markdown(text) for a str: the backslash first, then the others.
EscapeMarkdown(text) == EscapeSpecials(ReplaceChar(text, "\\", "\\\\"), 1)

RECURSIVE ReprValue(_, _, _)
RECURSIVE ReprItems(_, _, _, _)

\* The reprs of the items of a list or dict from item i on, joined by ", ".
ReprItems(h, x, i, active) ==
    IF i > Len(IF x.ty = "list" THEN x.elems ELSE x.pairs) THEN ""
    ELSE (IF i > 1 THEN ", " ELSE "")
            \o (IF x.ty = "list"
                THEN ReprValue(h, x.elems[i], active)
                ELSE "'" \o x.pairs[i].k \o "': "
                        \o ReprValue(h, x.pairs[i].val, active))
            \o ReprItems(h, x, i + 1, active)

\* repr(v): a list or dict that is being shown already (active) is shown
\* as [...] or {...}.
ReprValue(h, v, active) ==
    IF v.ty # "ref" THEN Repr(v)
    ELSE IF v.id \in active
    THEN (IF h[v.id].ty = "list" THEN "[...]" ELSE "{...}")
    ELSE IF h[v.id].ty = "list"
    THEN "[" \o ReprItems(h, h[v.id], 1, active \cup {v.id}) \o "]"
    ELSE "{" \o ReprItems(h, h[v.id], 1, active \cup {v.id}) \o "}"

\* str(v): the text itself for a str, the repr for every other value.
StrValue(h, v) == IF v.ty = "str" THEN v.v ELSE ReprValue(h, v, {})

\* What a render returns, with the seen set it leaves.
Shown(text, seen) == [text |-> text, seen |-> seen]

\* The text of r after a prefix.
After(prefix, r) == Shown(prefix \o r.text, r.seen)

\* The value of key in the dict item, "" when it has none: item.get(key, "").
ItemGet(item, key) ==
    IF \E i \in 1..Len(item.pairs) : item.pairs[i].k = key
    THEN item.pairs[CHOOSE i \in 1..Len(item.pairs) : item.pairs[i].k = key].val
    ELSE Str("")

\* The keys of the pairs from j on that are not in keys, appended to keys.
RECURSIVE AddKeys(_, _, _)
AddKeys(keys, pairs, j) ==
    IF j > Len(pairs) THEN keys
    ELSE AddKeys(IF \E n \in 1..Len(keys) : keys[n] = pairs[j].k
                 THEN keys ELSE Append(keys, pairs[j].k),
                 pairs, j + 1)

\* dict.fromkeys(key for item in data if isinstance(item, dict) for key in
\* item), from item i on.
RECURSIVE AllKeys(_, _, _, _)
AllKeys(h, elems, i, keys) ==
    IF i > Len(elems) THEN keys
    ELSE AllKeys(h, elems, i + 1,
                 IF IsDict(h, elems[i])
                 THEN AddKeys(keys, h[elems[i].id].pairs, 1) ELSE keys)

\* A cell: the text of the value, cut to the cell length, then escaped.
Cell(value_str) ==
    EscapeMarkdown(IF Len(value_str) > MAX_TABLE_CELL_LENGTH
                   THEN SubSeq(value_str, 1, MAX_TABLE_CELL_LENGTH - 3) \o "..."
                   ELSE value_str)

\* " | ".join of the cells of a dict item, from column n on.
RECURSIVE RowCells(_, _, _, _)
RowCells(h, item, keys, n) ==
    IF n > Len(keys) THEN ""
    ELSE (IF n > 1 THEN " | " ELSE "")
            \o Cell(StrValue(h, ItemGet(item, keys[n])))
            \o RowCells(h, item, keys, n + 1)

\* " | ".join(headers) from column n on.
RECURSIVE HeaderCells(_, _)
HeaderCells(keys, n) ==
    IF n > Len(keys) THEN ""
    ELSE (IF n > 1 THEN " | " ELSE "") \o EscapeMarkdown(keys[n])
            \o HeaderCells(keys, n + 1)

\* "|".join("---" for _ in headers) from column n on.
RECURSIVE SeparatorCells(_, _)
SeparatorCells(keys, n) ==
    IF n > Len(keys) THEN ""
    ELSE (IF n > 1 THEN "|" ELSE "") \o "---" \o SeparatorCells(keys, n + 1)

\* The data rows from item i on, each after a newline: a row for an item
\* that is a dict, nothing for any other item.
RECURSIVE DataRows(_, _, _, _)
DataRows(h, elems, keys, i) ==
    IF i > Len(elems) THEN ""
    ELSE (IF IsDict(h, elems[i])
          THEN "\n| " \o RowCells(h, h[elems[i].id], keys, 1) \o " |"
          ELSE "")
            \o DataRows(h, elems, keys, i + 1)

\* The table of a list, with the columns all_keys.
TableRows(h, elems, all_keys) ==
    "| " \o HeaderCells(all_keys, 1) \o " |"
        \o "\n|" \o SeparatorCells(all_keys, 1) \o "|"
        \o DataRows(h, elems, all_keys, 1)

RECURSIVE JsonToMarkdown(_, _, _, _, _)
RECURSIVE BulletsFrom(_, _, _, _, _, _)
RECURSIVE EntriesFrom(_, _, _, _, _, _)

\* array_to_markdown_table(data, indent, seen, depth), data a list.
ArrayToMarkdownTable(h, data, indent, seen, depth) ==
    IF h[data.id].elems = <<>> \/ ~IsDict(h, h[data.id].elems[1])
    THEN JsonToMarkdown(h, data, indent, seen, depth)
    ELSE IF AllKeys(h, h[data.id].elems, 1, <<>>) = <<>>
    THEN Shown(indent \o "_empty array_", seen)
    ELSE Shown(TableRows(h, h[data.id].elems,
                         AllKeys(h, h[data.id].elems, 1, <<>>)), seen)

\* The bullets from item i on, with item i rendered to r.
BulletsAfter(h, elems, i, indent, depth, r) ==
    IF i = Len(elems) THEN After(indent \o "- ", r)
    ELSE After(indent \o "- " \o r.text \o "\n",
               BulletsFrom(h, elems, i + 1, indent, r.seen, depth))

\* "\n".join(f"{indent}- {json_to_markdown(item, '', seen, depth + 1)}" for
\* item in data) from item i on.
BulletsFrom(h, elems, i, indent, seen, depth) ==
    BulletsAfter(h, elems, i, indent, depth,
                 JsonToMarkdown(h, elems[i], "", seen, depth + 1))

\* _format_object_entry(key, value, indent, seen, depth)
FormatObjectEntry(h, key, value, indent, seen, depth) ==
    IF IsComposite(value)
    THEN After(indent \o "**" \o EscapeMarkdown(ReplaceChar(key, "_", " "))
                      \o ":**\n",
               JsonToMarkdown(h, value, indent \o "  ", seen, depth + 1))
    ELSE Shown(indent \o "**" \o EscapeMarkdown(ReplaceChar(key, "_", " "))
                      \o ":** " \o EscapeMarkdown(StrValue(h, value)),
               seen)

\* The entries from pair i on, with pair i formatted to r.
EntriesAfter(h, pairs, i, indent, depth, r) ==
    IF i = Len(pairs) THEN r
    ELSE After(r.text \o "\n",
               EntriesFrom(h, pairs, i + 1, indent, r.seen, depth))

\* "\n".join(_format_object_entry(key, value, indent, seen, depth) for key,
\* value in entries) from pair i on.
EntriesFrom(h, pairs, i, indent, seen, depth) ==
    EntriesAfter(h, pairs, i, indent, depth,
                 FormatObjectEntry(h, pairs[i].k, pairs[i].val, indent, seen, depth))

\* Lines 128-154: a list or dict that was not seen, with seen holding it.
RenderComposite(h, data, indent, seen, depth) ==
    IF h[data.id].ty = "list"
    THEN IF h[data.id].elems = <<>> THEN Shown(indent \o "_empty array_", seen)
         ELSE IF IsDict(h, h[data.id].elems[1])
         THEN ArrayToMarkdownTable(h, data, indent, seen, depth)
         ELSE BulletsFrom(h, h[data.id].elems, 1, indent, seen, depth)
    ELSE IF h[data.id].pairs = <<>> THEN Shown(indent \o "_empty object_", seen)
    ELSE EntriesFrom(h, h[data.id].pairs, 1, indent, seen, depth)

\* seen.add(data_id), never undone.
MarkSeen(id, seen) == seen \cup {id}

\* json_to_markdown(data, indent, seen, depth) in the heap h.
JsonToMarkdown(h, data, indent, seen, depth) ==
    IF depth > MAX_RECURSION_DEPTH
    THEN Shown(indent \o "_max depth exceeded_", seen)
    ELSE IF data.ty = "NoneType" THEN Shown(indent \o "_null_", seen)
    ELSE IF ~IsComposite(data)
    THEN Shown(indent \o EscapeMarkdown(StrValue(h, data)), seen)
    ELSE IF data.id \in seen THEN Shown(indent \o "_circular reference_", seen)
    ELSE RenderComposite(h, data, indent, MarkSeen(data.id, seen), depth)

\* The ids of the objects of the enumerated heaps.
ObjectIds == {1, 2}

\* What an item of a list or a value of a dict of an enumerated heap is:
\* None, an int, a text with a character Markdown escapes, or an object.
Slots == {PyNone, PyInt("1"), Str("x_y")} \cup {Ref(i) : i \in ObjectIds}

\* The keys of the dicts of an enumerated heap.
Keys == {"a", "b_c"}

\* The lists of up to MaxItems items.
Lists == {PyList(e) : e \in UNION {[1..n -> Slots] : n \in 0..MaxItems}}

\* The dicts of up to MaxItems pairs (a dict holds a key once).
Dicts ==
    {PyDict([i \in 1..Len(ks) |-> [k |-> ks[i], val |-> vs[i]]]) :
        <<ks, vs>> \in UNION {
            {ks \in [1..n -> Keys] : \A i, j \in 1..n : i # j => ks[i] # ks[j]}
                \X [1..n -> Slots] : n \in 0..MaxItems}}

\* A value a caller passes: the heap of its lists and dicts, and the value.
Value(heap, data) == [heap |-> heap, data |-> data]

\* depth + 2 lists, one inside the other, the innermost empty.
ListChain(depth) ==
    [i \in 1..(depth + 2) |->
        IF i = depth + 2 THEN PyList(<<>>) ELSE PyList(<<Ref(i + 1)>>)]

\* Values written out: scalars; lists nested to the depth the renderer
\* stops at and one past it; a table with a cell over the cell length, a
\* cell that holds a list and one with every escaped character; one dict
\* in the tables of two sibling keys.
WrittenValues ==
    {Value(<<>>, x) : x \in {PyNone, PyInt("1"), Str("x_y"), PyBool(TRUE),
                             PyFloat("1.5"), Str("a|b*c[d]#e\\f")}}
    \cup {Value(ListChain(MAX_RECURSION_DEPTH - 1), Ref(1)),
          Value(ListChain(MAX_RECURSION_DEPTH), Ref(1)),
          Value(<<PyList(<<Ref(2), Ref(3)>>),
                  PyDict(<<[k |-> "name",
                            val |-> Str(Repeat("x", MAX_TABLE_CELL_LENGTH + 1))],
                           [k |-> "tags", val |-> Ref(4)]>>),
                  PyDict(<<[k |-> "size_mb", val |-> Str("a|b*c[d]#e\\f")],
                           [k |-> "name",
                            val |-> Str(Repeat("x", MAX_TABLE_CELL_LENGTH))]>>),
                  PyList(<<Str("q"), PyNone, PyBool(FALSE)>>)>>, Ref(1)),
          Value(<<PyDict(<<[k |-> "a", val |-> Ref(2)], [k |-> "b", val |-> Ref(3)]>>),
                  PyList(<<Ref(4)>>), PyList(<<Ref(4)>>),
                  PyDict(<<[k |-> "x", val |-> PyInt("1")]>>)>>, Ref(1))}

\* The values a caller passes to json_to_markdown: every heap of the
\* objects ObjectIds, rendered from the first, and the values written out.
MarkdownInputs ==
    {Value(heap, Ref(1)) : heap \in [1..Cardinality(ObjectIds) -> Lists \cup Dicts]}
    \cup WrittenValues

\* A caller renders a value as Markdown, once: json_to_markdown(data).
ToMarkdown ==
    \E value \in MarkdownInputs :
        /\ markdown = NotShown
        /\ markdown' = [calls |-> 1, heap |-> value.heap, data |-> value.data,
                        result |-> JsonToMarkdown(value.heap, value.data, "", {}, 0)]
        /\ UNCHANGED outsideMarkdown

NextMarkdown ==
    \/ ToMarkdown

SpecMarkdown == Init /\ [][NextMarkdown]_vars

(***************************** claims: Markdown ****************************)

\* The items of a list, or the values of a dict, in order.
SlotsOf(x) ==
    IF x.ty = "list" THEN x.elems ELSE [i \in 1..Len(x.pairs) |-> x.pairs[i].val]

\* The ids of the objects the object with this id holds.
HeldBy(h, id) ==
    {SlotsOf(h[id])[i].id :
        i \in {j \in 1..Len(SlotsOf(h[id])) : SlotsOf(h[id])[j].ty = "ref"}}

\* The ids in ids and of every object held, directly or not, by one of them.
RECURSIVE Closure(_, _)
Closure(h, ids) ==
    IF UNION {HeldBy(h, id) : id \in ids} \subseteq ids THEN ids
    ELSE Closure(h, ids \cup UNION {HeldBy(h, id) : id \in ids})

\* The object with this id contains itself, directly or through others.
ContainsItself(h, id) == id \in Closure(h, HeldBy(h, id))

\* The ids of the objects of the value given to json_to_markdown.
ObjectsOf(m) == IF m.data.ty = "ref" THEN Closure(m.heap, {m.data.id}) ELSE {}

\* No list or dict of the value contains itself.
NonCyclic(m) == \A id \in ObjectsOf(m) : ~ContainsItself(m.heap, id)

\* How many times the text p occurs in s.
CountOf(s, p) == Cardinality({i \in 1..Len(s) : Sub(s, i, Len(p)) = p})

\* How many items or values of the object with this id are of the type ty.
CountSlots(h, id, ty) ==
    Cardinality({i \in 1..Len(SlotsOf(h[id])) : SlotsOf(h[id])[i].ty = ty})

\* How many items or values of the objects with these ids are of the type ty.
RECURSIVE SumSlots(_, _, _)
SumSlots(h, ids, ty) ==
    IF ids = {} THEN 0
    ELSE LET id == CHOOSE n \in ids : TRUE
         IN  CountSlots(h, id, ty) + SumSlots(h, ids \ {id}, ty)

\* json_to_markdown was called on a list or dict.
ShownComposite == markdown.calls = 1 /\ markdown.data.ty = "ref"

\* C21: json_to_markdown applied to a list or dict that contains itself,
\* directly or through nested lists and dicts, terminates, and its output
\* contains the placeholder _circular reference_.
C21_SelfReferenceShowsPlaceholder ==
    (ShownComposite /\ ContainsItself(markdown.heap, markdown.data.id)) =>
        Contains(markdown.result.text, "_circular reference_")

\* The references to lists and dicts in the objects of the value.
References(m) == SumSlots(m.heap, ObjectsOf(m), "ref")

\* C22: the seen set only grows during one render, so when the same list
\* or dict occurs in two sibling branches of a non-cyclic value, its first
\* occurrence is rendered in full and every later occurrence is rendered
\* as the placeholder _circular reference_: the output holds one
\* placeholder for every reference beyond the first to each object.
C22_LaterOccurrencesArePlaceholders ==
    (ShownComposite /\ NonCyclic(markdown)) =>
        CountOf(markdown.result.text, "_circular reference_")
            = References(markdown) - (Cardinality(ObjectsOf(markdown)) - 1)

\* The list given to json_to_markdown is not empty and its first item is a
\* dict.
ShownListOfDicts ==
    /\ ShownComposite
    /\ markdown.heap[markdown.data.id].ty = "list"
    /\ markdown.heap[markdown.data.id].elems # <<>>
    /\ IsDict(markdown.heap, markdown.heap[markdown.data.id].elems[1])

\* The keys of the dicts among the items, each once, in first-seen order.
RECURSIVE UnionOfKeys(_, _, _)
UnionOfKeys(h, elems, i) ==
    IF i = 0 THEN <<>>
    ELSE LET before == UnionOfKeys(h, elems, i - 1)
             had == {before[n] : n \in 1..Len(before)}
             pairs == IF IsDict(h, elems[i]) THEN h[elems[i].id].pairs ELSE <<>>
         IN  before \o SelectSeq([n \in 1..Len(pairs) |-> pairs[n].k],
                                 LAMBDA k : k \notin had)

\* The lines of a text: what "\n" separates.
RECURSIVE Lines(_)
Lines(s) ==
    IF \A i \in 1..Len(s) : Ch(s, i) # "\n" THEN <<s>>
    ELSE LET n == CHOOSE i \in 1..Len(s) :
                    Ch(s, i) = "\n" /\ \A j \in 1..(i - 1) : Ch(s, j) # "\n"
         IN  <<SubSeq(s, 1, n - 1)>> \o Lines(SubSeq(s, n + 1, Len(s)))

\* The cells of a row of a table: what " | " separates between "| " and
\* " |" (empty for a line that is no row).
RECURSIVE CellsOf(_)
CellsOf(row) ==
    IF Len(row) < 4 \/ Sub(row, 1, 2) # "| " THEN <<>>
    ELSE LET ends == {i \in 3..Len(row) : Sub(row, i, 2) = " |"}
             e == CHOOSE i \in ends : \A j \in ends : i <= j
         IN  IF ends = {} THEN <<>>
             ELSE <<SubSeq(row, 3, e - 1)>> \o CellsOf(SubSeq(row, e + 1, Len(row)))

\* C23: for every non-empty list whose first item is a dict,
\* json_to_markdown renders a table: a header row whose columns are the
\* union of the keys of all dict items in first-seen order, a separator
\* row, and exactly one data row for each item of the list, with an empty
\* cell where an item lacks a key.
C23_TableHasARowForEachItem ==
    ShownListOfDicts =>
        LET h == markdown.heap
            elems == h[markdown.data.id].elems
            keys == UnionOfKeys(h, elems, Len(elems))
            lines == Lines(markdown.result.text)
        IN  /\ Len(lines) = 2 + Len(elems)
            /\ CellsOf(lines[1]) = [n \in 1..Len(keys) |-> EscapeMarkdown(keys[n])]
            /\ lines[2] = "|" \o SeparatorCells(keys, 1) \o "|"
            /\ \A i \in 1..Len(elems) :
                  /\ Len(CellsOf(lines[2 + i])) = Len(keys)
                  /\ \A n \in 1..Len(keys) :
                        (/\ IsDict(h, elems[i])
                         /\ \A p \in 1..Len(h[elems[i].id].pairs) :
                                h[elems[i].id].pairs[p].k # keys[n])
                            => CellsOf(lines[2 + i])[n] = ""

\* Every list and dict of the value occurs in it once.
IsTree(m) ==
    /\ NonCyclic(m)
    /\ References(m) = Cardinality(ObjectsOf(m)) - (IF m.data.ty = "ref" THEN 1 ELSE 0)

\* The nulls of the value: itself, items of its lists, values of its dicts.
Nulls(m) ==
    (IF m.data.ty = "NoneType" THEN 1 ELSE 0) + SumSlots(m.heap, ObjectsOf(m), "NoneType")

\* C24: json_to_markdown renders a null as the placeholder _null_ wherever
\* it occurs in the value tree: as the top-level value, as an item of a
\* list and as the value of a key of a dict.
C24_EveryNullShowsPlaceholder ==
    (markdown.calls = 1 /\ IsTree(markdown)) =>
        CountOf(markdown.result.text, "_null_") = Nulls(markdown)

(***************************** tools/*.py: the event loop ******************)

\* The registered tools: tool_definition.name of the modules of tools/.
ToolNames ==
    {"ollama_chat", "ollama_delete", "ollama_embed", "ollama_execute",
     "ollama_generate", "ollama_list", "ollama_ps", "ollama_pull", "ollama_show"}

\* The arguments a handler raises ValueError without, before it awaits the
\* backend client ("if not model: raise ValueError(...)").
RequiredArguments(tool) ==
    CASE tool = "ollama_chat" -> {"model", "messages"}
      [] tool = "ollama_embed" -> {"model", "input"}
      [] tool = "ollama_generate" -> {"model", "prompt"}
      [] tool \in {"ollama_delete", "ollama_pull", "ollama_show"} -> {"model"}
      [] OTHER -> {}

\* The args of a call, as the set of the keys whose value is truthy.
CallArguments ==
    {{}, {"model"}, {"model", "messages"}, {"model", "input"},
     {"model", "prompt"}, {"code"}, {"generate"}, {"generate", "prompt"},
     {"code", "generate", "prompt"}}

\* What the awaited backend call of a handler does: it returns, it returns
\* a text without code (execute_handler only), it raises.
BackendOutcomes == {"returns", "returns_empty", "raises"}

\* A call whose handler awaits the backend client: the coroutine is
\* suspended and the event loop runs other tasks.
Awaiting(tool) == [pc |-> "awaiting", tool |-> tool]

\* A call whose handler is inside subprocess.run(cmd, capture_output=True,
\* text=True, timeout=30): the thread of the event loop waits for the child
\* process to exit or for the 30 seconds to pass.
InSubprocess == [pc |-> "subprocess", tool |-> "ollama_execute"]

\* execute_handler from "if not code" on: it raises, or it writes the
\* temporary file and runs the command.
ExecuteCode(has_code) == IF has_code THEN InSubprocess ELSE Idle

\* A handler from its call to where it first stops: it awaits the backend,
\* it calls subprocess.run, or it raises and the call is over.
HandlerStart(tool, args) ==
    IF tool = "ollama_execute"
    THEN IF "generate" \in args /\ "prompt" \in args
         THEN Awaiting(tool)
         ELSE ExecuteCode("code" \in args)
    ELSE IF RequiredArguments(tool) \subseteq args THEN Awaiting(tool) ELSE Idle

\* A handler from the return of its backend call on: execute_handler goes
\* on to run the generated code, returns the error when generate raised or
\* raises when no code came; every other handler returns or raises.
HandlerResume(tool, outcome) ==
    IF tool = "ollama_execute" /\ outcome # "raises"
    THEN ExecuteCode(outcome = "returns")
    ELSE Idle

\* The thread of the event loop is not held by a handler.
LoopFree == \A i \in 1..MaxCalls : loop[i].pc # "subprocess"

\* The transport makes a task for an invoke request.
Request(i) ==
    /\ LoopFree
    /\ loop[i] = Idle
    /\ loop' = [loop EXCEPT ![i] = PendingCall]

\* The event loop runs a new task: handle_call_tool reaches
\* "result = await handler(self.ollama_client, args, response_format)" and
\* the handler runs to where it first stops.
StartHandler(i) ==
    \E tool \in ToolNames, args \in CallArguments :
        /\ LoopFree
        /\ loop[i] = PendingCall
        /\ loop' = [loop EXCEPT ![i] = HandlerStart(tool, args)]

\* The backend call a handler awaits is over and the event loop resumes
\* the handler.
BackendResponds(i) ==
    \E outcome \in BackendOutcomes :
        /\ LoopFree
        /\ loop[i].pc = "awaiting"
        /\ loop' = [loop EXCEPT ![i] = HandlerResume(loop[i].tool, outcome)]

\* subprocess.run returns or raises TimeoutExpired, and execute_handler
\* returns.
SubprocessEnds(i) ==
    /\ loop[i] = InSubprocess
    /\ loop' = [loop EXCEPT ![i] = Idle]

CallArrives == \E i \in 1..MaxCalls : Request(i) /\ UNCHANGED outsideLoop

HandlerStarts == \E i \in 1..MaxCalls : StartHandler(i) /\ UNCHANGED outsideLoop

HandlerResumes == \E i \in 1..MaxCalls : BackendResponds(i) /\ UNCHANGED outsideLoop

ExecutionEnds == \E i \in 1..MaxCalls : SubprocessEnds(i) /\ UNCHANGED outsideLoop

NextLoop ==
    \/ CallArrives
    \/ HandlerStarts
    \/ HandlerResumes
    \/ ExecutionEnds

SpecLoop == Init /\ [][NextLoop]_vars

(***************************** claims: the event loop **********************)

\* The handler of the call has started and has not returned.
InFlight(i) == loop[i].pc \in {"awaiting", "subprocess"}

\* C25: no operation blocks the whole process: while one invoke call is in
\* flight (its handler has started and has not returned), the dispatcher
\* can still start every other request that waits to start and complete
\* every other request whose backend call is over, whatever the handler of
\* the call in flight, ollama_execute included.
C25_CallInFlightBlocksNoOther ==
    \A i, j \in 1..MaxCalls :
        (i # j /\ InFlight(i)) =>
            /\ loop[j] = PendingCall => ENABLED StartHandler(j)
            /\ loop[j].pc = "awaiting" => ENABLED BackendResponds(j)

(***************************** ollama_client.py: _post *********************)

\* The exception classes the HTTP call raises, each with its base classes:
\* httpx.ConnectError, ConnectTimeout and ReadTimeout are RequestErrors;
\* asyncio.CancelledError is a BaseException and no Exception.
ExceptionBases ==
    [ConnectError |-> {"RequestError", "Exception", "BaseException"},
     ConnectTimeout |-> {"RequestError", "Exception", "BaseException"},
     ReadTimeout |-> {"RequestError", "Exception", "BaseException"},
     Exception |-> {"Exception", "BaseException"},
     RuntimeError |-> {"Exception", "BaseException"},
     TypeError |-> {"Exception", "BaseException"},
     CancelledError |-> {"BaseException"}]

\* isinstance(e, class) for an exception of the given class.
IsInstance(type, class) == type = class \/ class \in ExceptionBases[type]

\* "await self.client.post(endpoint, json=data)" raised.
SendRaises(type, message) == [kind |-> "raise", type |-> type, message |-> message]

\* "await self.client.post(endpoint, json=data)" returned a response.
Response(status_code, text) ==
    [kind |-> "response", status_code |-> status_code, text |-> text]

\* _post returned.
PostReturns(value) == [outcome |-> "returned", value |-> value]

\* _post raised.
PostRaises(type, message) == [outcome |-> "raised", type |-> type, message |-> message]

\* response.raise_for_status() raises HTTPStatusError: the status is 4xx
\* or 5xx.
IsErrorStatus(status_code) == Ch(status_code, 1) \in {"4", "5"}

\* str(e) of the ValueError response.json() raises on this text.
InvalidJsonMessage == "Expecting value: line 1 column 1 (char 0)"

\* _handle_response inside the try block of _post: an error status is
\* raised as HTTPStatusError and caught by the first handler; invalid JSON
\* is raised as OllamaError and caught by the last.
HandleResponse(response) ==
    IF IsErrorStatus(response.status_code)
    THEN PostRaises("OllamaError",
            "Ollama API error: " \o response.status_code \o " - " \o response.text)
    ELSE IF response.text = "" THEN PostReturns(Dict({}))
    ELSE IF JsonLoads(response.text).ok THEN PostReturns(JsonLoads(response.text).val)
    ELSE PostRaises("NetworkError",
            "Unexpected error: Invalid JSON response: " \o InvalidJsonMessage)

\* The except clauses of _post on what the HTTP call raised.
PostOnError(type, message) ==
    IF IsInstance(type, "RequestError")
    THEN PostRaises("NetworkError", "Failed to connect to Ollama: " \o message)
    ELSE IF IsInstance(type, "Exception")
    THEN PostRaises("NetworkError", "Unexpected error: " \o message)
    ELSE PostRaises(type, message)

\* OllamaClient._post, given what the HTTP call did.
Post(sent) ==
    IF sent.kind = "raise" THEN PostOnError(sent.type, sent.message)
    ELSE HandleResponse(sent)

\* The endpoints the client posts to.
Endpoints == {"/api/generate", "/api/chat", "/api/embed", "/api/pull", "/api/show"}

\* What the HTTP call does: the exceptions it raises and the responses it
\* returns.
SendOutcomes ==
    {SendRaises(type, message) :
        type \in DOMAIN ExceptionBases,
        message \in {"Connection refused", "All connection attempts failed", ""}}
    \cup {Response(status_code, text) :
            status_code \in {"200", "404", "500"},
            text \in {"", "{}", "{\"response\": \"ok\"}", "Internal Server Error"}}

\* A caller awaits _post(endpoint, data).
PostRequest ==
    \E endpoint \in Endpoints, sent \in SendOutcomes :
        /\ posted' = [calls |-> 1, endpoint |-> endpoint, sent |-> sent,
                      result |-> Post(sent)]
        /\ UNCHANGED outsideClient

NextClient == \/ PostRequest

SpecClient == Init /\ [][NextClient]_vars

(***************************** claims: _post *******************************)

\* C26: every failure raised by the underlying HTTP call while sending the
\* request, whatever its exception type, surfaces from _post as an error
\* whose message contains "Failed to connect to Ollama", and an HTTP error
\* status surfaces as an error whose message contains "Ollama API error".
C26_PostErrorMapping ==
    posted.calls = 1 =>
        /\ posted.sent.kind = "raise" =>
              /\ posted.result.outcome = "raised"
              /\ Contains(posted.result.message, "Failed to connect to Ollama")
        /\ (posted.sent.kind = "response" /\ IsErrorStatus(posted.sent.status_code)) =>
              /\ posted.result.outcome = "raised"
              /\ Contains(posted.result.message, "Ollama API error")

(***************************** server.py: the configuration resource *******)

\* The text after "scheme://" up to the first "/", "?" or "#":
\* urlparse(host).netloc.
RECURSIVE NetlocFrom(_, _)
NetlocFrom(s, i) ==
    IF i > Len(s) \/ Ch(s, i) \in {"/", "?", "#"} THEN ""
    ELSE Ch(s, i) \o NetlocFrom(s, i + 1)

\* OllamaClient._validate_host on a str: the stripped host, or "" where it
\* raises ValueError.
ValidateHost(host) ==
    IF host = "" THEN ""
    ELSE IF StartsWith(Strip(host), "http://")
    THEN (IF NetlocFrom(Strip(host), 8) = "" THEN "" ELSE Strip(host))
    ELSE IF StartsWith(Strip(host), "https://")
    THEN (IF NetlocFrom(Strip(host), 9) = "" THEN "" ELSE Strip(host))
    ELSE ""

\* "a or b" of Python.
PyOr(a, b) == IF Truthy(a) THEN a ELSE b

\* OllamaClient(host, api_key) in an environment that holds the given
\* OLLAMA_HOST and OLLAMA_API_KEY (None: unset): the client, or None where
\* the constructor raises.
NewOllamaClient(host, api_key, env) ==
    LET raw_host == PyOr(host, IF env.host = PyNone THEN Str(DEFAULT_HOST) ELSE env.host)
    IN  IF ValidateHost(raw_host.v) = "" THEN None
        ELSE [ty |-> "OllamaClient", host |-> ValidateHost(raw_host.v),
              api_key |-> PyOr(api_key, env.api_key)]

\* The host argument of the constructor.
HostInputs ==
    {PyNone, Str("http://127.0.0.1:11434"), Str(" https://ollama.com "),
     Str("https://sk-1@ollama.com/v1"), Str("localhost:11434"), Str("http://")}

\* The api_key argument of the constructor.
ApiKeyInputs == {PyNone, Str(""), Str("sk-1"), Str("sk-2")}

\* The environment of the process.
Environments ==
    {[host |-> h, api_key |-> k] :
        h \in {PyNone, Str("http://ollama.internal:11434")},
        k \in {PyNone, Str("sk-env")}}

\* The arguments of read-resource that name the configuration.
ConfigUriInputs ==
    {Str(RESOURCE_URI_CONFIG), Dict({[k |-> "uri", val |-> Str(RESOURCE_URI_CONFIG)]})}

\* The dispatchers.
DispatcherIds == {1, 2}

\* OllamaMCPServer(ollama_client=OllamaClient(host, api_key)): the
\* dispatcher is not constructed when the client's constructor raises.
Construct ==
    \E d \in DispatcherIds, host \in HostInputs, api_key \in ApiKeyInputs,
       env \in Environments :
        /\ dispatchers[d] = NotConstructed
        /\ NewOllamaClient(host, api_key, env) # None
        /\ dispatchers' = [dispatchers EXCEPT ![d] =
                [client |-> NewOllamaClient(host, api_key, env), read |-> None]]
        /\ UNCHANGED outsideConfig

\* handle_read_resource("ollama://config") of a dispatcher: it returns
\* without awaiting the backend client.
ReadConfig ==
    \E d \in DispatcherIds, uri \in ConfigUriInputs :
        /\ dispatchers[d] # NotConstructed
        /\ dispatchers[d].read = None
        /\ dispatchers' = [dispatchers EXCEPT ![d].read =
                HandleReadResourceOf(dispatchers[d].client, uri)]
        /\ UNCHANGED outsideConfig

NextConfig ==
    \/ Construct
    \/ ReadConfig

SpecConfig == Init /\ [][NextConfig]_vars

(***************************** claims: the configuration resource **********)

\* The dispatcher has read its configuration.
HasRead(d) == dispatchers[d] # NotConstructed /\ dispatchers[d].read # None

\* The two dispatchers differ at most in the value of a non-empty API key.
DifferOnlyInKey ==
    /\ dispatchers[1].client.host = dispatchers[2].client.host
    /\ Truthy(dispatchers[1].client.api_key)
    /\ Truthy(dispatchers[2].client.api_key)

\* C27: reading ollama://config makes no backend call, and two dispatchers
\* that differ only in the value of a non-empty API key return identical
\* envelopes: the text depends on the client's host and on whether a key
\* is set, and the key itself is not disclosed.
C27_ConfigHidesTheKey ==
    /\ \A d \in DispatcherIds :
          HasRead(d) => dispatchers[d].read.kind = "done" /\ dispatchers[d].read.query = ""
    /\ (HasRead(1) /\ HasRead(2) /\ DifferOnlyInKey) =>
          dispatchers[1].read.result = dispatchers[2].read.result

\* Two dispatchers with different non-empty keys and the same host have
\* both read their configuration.
C27_Witness ==
    /\ HasRead(1) /\ HasRead(2) /\ DifferOnlyInKey
    /\ dispatchers[1].client.api_key # dispatchers[2].client.api_key

(***************************** claims: prompt arguments ********************)

\* The arguments the catalog marks required for the prompt.
RequiredOf(name) ==
    {Prompts[name].arguments[i].name :
        i \in {j \in 1..Len(Prompts[name].arguments) : Prompts[name].arguments[j].required}}

\* The args of the request hold the argument.
Given(args, argument) ==
    args.ty = "dict" /\ \E it \in args.items : it.k = argument

\* The args of the request hold the argument, and it is not empty.
GivenNonEmpty(args, argument) ==
    Given(args, argument) /\ Truthy(DictGet(args, argument, PyNone))

\* The latest step completed a get-prompt of a prompt of the catalog, with
\* args that are a dict or None.
CompletedCatalogPrompt ==
    /\ Completed("get_prompt")
    /\ last.arg.ty = "str" /\ last.arg.v \in DOMAIN Prompts
    /\ last.args.ty \in {"dict", "NoneType"}

\* C28: the prompt catalog and get-prompt agree on required arguments: for
\* every prompt in the catalog and every argument the catalog marks
\* required, get-prompt raises when that argument is absent from args, and
\* it returns a description plus exactly one user-role message when every
\* required argument is present and non-empty.
C28_RequiredArgumentsAreEnforced ==
    CompletedCatalogPrompt =>
        /\ (\E a \in RequiredOf(last.arg.v) : ~Given(last.args, a)) =>
              last.outcome = "raised"
        /\ (\A a \in RequiredOf(last.arg.v) : GivenNonEmpty(last.args, a)) =>
              /\ last.outcome = "returned"
              /\ last.result.description = Prompts[last.arg.v].description
              /\ Len(last.result.messages) = 1
              /\ last.result.messages[1].role = "user"

(***************************** scripts/server_control.py *******************)

\* The commands of the script that look at the server.
Commands == {"start", "stop", "restart", "status"}

\* PID_FILE holds the pid.
FileWith(pid) == [exists |-> TRUE, pid |-> pid]

\* An invocation of the script at the given place of the given command.
At(pc, command) == [pc |-> pc, command |-> command]

\* An invocation of the script that holds a pid: of the process it
\* launched, or of the server it stops.
AtWith(pc, command, pid) == [pc |-> pc, command |-> command, pid |-> pid]

\* is_mcp_server_process(pid) for the pid of a server the script launched:
\* the process runs.
IsMcpServerProcess(c, pid) == pid \in c.alive

\* get_server_pid: the pid in PID_FILE when the file exists and the process
\* runs; a file whose process does not run is unlinked.
GetServerPid(c) ==
    IF c.pid_file.exists /\ IsMcpServerProcess(c, c.pid_file.pid)
    THEN [pid |-> c.pid_file.pid, found |-> TRUE, pid_file |-> c.pid_file]
    ELSE [found |-> FALSE, pid_file |-> NoFile]

\* Where an invocation starts, by its command.
FirstStep(command) ==
    CASE command = "start" -> At("start_server", command)
      [] command = "status" -> At("server_status", command)
      [] OTHER -> At("stop_server", command)

\* Where an invocation goes when stop_server has returned: restart_server
\* sleeps and calls start_server.
AfterStop(command) ==
    IF command = "restart" THEN At("start_server", command) ELSE NotRunning

\* The invocations of the script that are running.
Running(c) == {i \in 1..MaxScripts : c.scripts[i] # NotRunning}

\* A user runs the script with a command.
RunScript ==
    \E i \in 1..MaxScripts, command \in Commands :
        /\ control.scripts[i] = NotRunning
        /\ control' = [control EXCEPT
                !.scripts[i] = FirstStep(command),
                !.overlapped = control.overlapped \/ Running(control) # {}]
        /\ UNCHANGED outsideControl

\* server_status: get_server_pid and a message.
ServerStatus ==
    \E i \in 1..MaxScripts :
        /\ control.scripts[i].pc = "server_status"
        /\ control' = [control EXCEPT
                !.pid_file = GetServerPid(control).pid_file,
                !.scripts[i] = NotRunning]
        /\ UNCHANGED outsideControl

\* start_server up to subprocess.Popen: it returns 1 when get_server_pid
\* finds a server.
StartServer ==
    \E i \in 1..MaxScripts :
        /\ control.scripts[i].pc = "start_server"
        /\ control' = [control EXCEPT
                !.pid_file = GetServerPid(control).pid_file,
                !.scripts[i] = IF GetServerPid(control).found THEN NotRunning
                               ELSE At("Popen", control.scripts[i].command)]
        /\ UNCHANGED outsideControl

\* subprocess.Popen([sys.executable, "-m", "mcp_ollama_python"], ...)
\* launches a server.
Popen ==
    \E i \in 1..MaxScripts :
        /\ control.scripts[i].pc = "Popen"
        /\ control.launched < MaxLaunches
        /\ control' = [control EXCEPT
                !.launched = control.launched + 1,
                !.alive = control.alive \cup {control.launched + 1},
                !.scripts[i] = AtWith("write_text", control.scripts[i].command,
                                      control.launched + 1)]
        /\ UNCHANGED outsideControl

\* subprocess.Popen raises OSError: the PID file is unlinked and
\* start_server returns 1.
PopenRaises ==
    \E i \in 1..MaxScripts :
        /\ control.scripts[i].pc = "Popen"
        /\ control' = [control EXCEPT
                !.pid_file = NoFile,
                !.scripts[i] = NotRunning]
        /\ UNCHANGED outsideControl

\* PID_FILE.write_text(str(process.pid)).
WritePidFile ==
    \E i \in 1..MaxScripts :
        /\ control.scripts[i].pc = "write_text"
        /\ control' = [control EXCEPT
                !.pid_file = FileWith(control.scripts[i].pid),
                !.scripts[i] = [control.scripts[i] EXCEPT !.pc = "poll"]]
        /\ UNCHANGED outsideControl

\* After time.sleep(1): "if process.poll() is None" start_server returns 0,
\* else it unlinks the PID file and returns 1.
Poll ==
    \E i \in 1..MaxScripts :
        /\ control.scripts[i].pc = "poll"
        /\ control' = [control EXCEPT
                !.pid_file = IF control.scripts[i].pid \in control.alive
                             THEN control.pid_file ELSE NoFile,
                !.scripts[i] = NotRunning]
        /\ UNCHANGED outsideControl

\* stop_server up to os.kill: it returns 1 when get_server_pid finds no
\* server.
StopServer ==
    \E i \in 1..MaxScripts :
        /\ control.scripts[i].pc = "stop_server"
        /\ control' = [control EXCEPT
                !.pid_file = GetServerPid(control).pid_file,
                !.scripts[i] =
                    IF GetServerPid(control).found
                    THEN AtWith("kill", control.scripts[i].command,
                                GetServerPid(control).pid)
                    ELSE AfterStop(control.scripts[i].command)]
        /\ UNCHANGED outsideControl

\* os.kill(pid, signal.SIGTERM), the wait of up to 5 seconds and
\* process.kill(): the server has exited (os.kill raises OSError when it
\* had exited before).
Kill ==
    \E i \in 1..MaxScripts :
        /\ control.scripts[i].pc = "kill"
        /\ control' = [control EXCEPT
                !.alive = control.alive \ {control.scripts[i].pid},
                !.scripts[i] = At("unlink", control.scripts[i].command)]
        /\ UNCHANGED outsideControl

\* "if PID_FILE.exists(): PID_FILE.unlink()" and the return of stop_server.
Unlink ==
    \E i \in 1..MaxScripts :
        /\ control.scripts[i].pc = "unlink"
        /\ control' = [control EXCEPT
                !.pid_file = NoFile,
                !.scripts[i] = AfterStop(control.scripts[i].command)]
        /\ UNCHANGED outsideControl

\* A server exits by itself.
ServerExits ==
    \E pid \in control.alive :
        /\ control' = [control EXCEPT !.alive = control.alive \ {pid}]
        /\ UNCHANGED outsideControl

NextControl ==
    \/ RunScript
    \/ ServerStatus
    \/ StartServer
    \/ Popen
    \/ PopenRaises
    \/ WritePidFile
    \/ Poll
    \/ StopServer
    \/ Kill
    \/ Unlink
    \/ ServerExits

SpecControl == Init /\ [][NextControl]_vars

(***************************** claims: the control script ******************)

\* C29: over every sequence and interleaving of the script's start, stop,
\* restart and status commands, at most one server process launched by the
\* script is alive at a time: start launches a new process only when no
\* server launched before is still running.
C29_AtMostOneServerAlive == Cardinality(control.alive) <= 1

\* The same, for the runs in which no invocation of the script started
\* while another was running.
AtMostOneServerAliveInSequence ==
    ~control.overlapped => Cardinality(control.alive) <= 1

(***************************** main.py: main *******************************)

\* The signals main installs signal_handler for.
Signals == {"SIGINT", "SIGTERM"}

\* The asyncio.wait of main has something to return with: a callback that
\* completes one of its two tasks is in the event loop's ready queue.
HasReady == process.ready # {}

\* main up to the "async with": the event is created, signal_handler is
\* installed for SIGINT and SIGTERM, and OllamaClient() makes the HTTP
\* client.
Setup ==
    /\ process.pc = "not_started"
    /\ process' = [process EXCEPT !.pc = "entering", !.client = "open"]
    /\ UNCHANGED outsideMain

\* OllamaClient() raises (OLLAMA_HOST is not a valid host) and main raises
\* it again.
SetupRaises ==
    /\ process.pc = "not_started"
    /\ process' = [process EXCEPT !.pc = "raised"]
    /\ UNCHANGED outsideMain

\* "async with stdio_server()": main creates server_task and shutdown_task
\* and awaits asyncio.wait([server_task, shutdown_task],
\* return_when=FIRST_COMPLETED).
Serve ==
    /\ process.pc = "entering"
    /\ process' = [process EXCEPT
            !.pc = "waiting",
            !.server_task = "pending",
            !.shutdown_task = "pending",
            !.ready = IF process.shutdown_event THEN {"shutdown_task"} ELSE {}]
    /\ UNCHANGED outsideMain

\* The event loop has run every ready callback and waits in select(), with
\* no timeout, for input.
LoopIdles ==
    /\ process.pc = "waiting"
    /\ process.loop = "running"
    /\ ~HasReady
    /\ process' = [process EXCEPT !.loop = "select"]
    /\ UNCHANGED outsideMain

\* SIGINT or SIGTERM is delivered and signal_handler runs:
\* _shutdown_event.set() completes the future shutdown_task waits on, whose
\* callback goes into the ready queue with call_soon.  That does not write
\* to the loop's self-pipe, so a loop inside select() stays there.
SignalDelivered ==
    \E signum \in Signals :
        /\ process.pc \in {"entering", "waiting", "cancelling", "leaving", "cleanup"}
        /\ process' = [process EXCEPT
                !.signals = process.signals \cup {signum},
                !.shutdown_event = TRUE,
                !.ready = IF process.shutdown_task = "pending" /\ ~process.shutdown_event
                          THEN process.ready \cup {"shutdown_task"}
                          ELSE process.ready]
        /\ UNCHANGED outsideMain

\* A request arrives on stdin: select() returns, and the loop runs the
\* server task, which handles the request.
InputArrives ==
    /\ process.pc = "waiting"
    /\ process.stdin = "open"
    /\ process.handled < MaxRequests
    /\ process' = [process EXCEPT !.loop = "running", !.handled = process.handled + 1]
    /\ UNCHANGED outsideMain

\* stdin reaches its end: select() returns, and mcp_server.run returns.
StdinCloses ==
    /\ process.pc = "waiting"
    /\ process.stdin = "open"
    /\ process' = [process EXCEPT
            !.stdin = "eof",
            !.loop = "running",
            !.ready = process.ready \cup {"server_task"}]
    /\ UNCHANGED outsideMain

\* The running loop runs the ready callbacks: the tasks they belong to are
\* done and asyncio.wait returns (done, pending).
WaitReturns ==
    /\ process.pc = "waiting"
    /\ process.loop = "running"
    /\ HasReady
    /\ process' = [process EXCEPT
            !.pc = "cancelling",
            !.ready = {},
            !.server_task = IF "server_task" \in process.ready THEN "done" ELSE "pending",
            !.shutdown_task = IF "shutdown_task" \in process.ready THEN "done" ELSE "pending"]
    /\ UNCHANGED outsideMain

\* "for task in pending: task.cancel(); await task".
Cancelled(task) == IF task = "pending" THEN "cancelled" ELSE task

CancelPending ==
    /\ process.pc = "cancelling"
    /\ process' = [process EXCEPT
            !.pc = "leaving",
            !.server_task = Cancelled(process.server_task),
            !.shutdown_task = Cancelled(process.shutdown_task)]
    /\ UNCHANGED outsideMain

\* The end of the "async with stdio_server()" block.
LeaveStdio ==
    /\ process.pc = "leaving"
    /\ process' = [process EXCEPT !.pc = "cleanup"]
    /\ UNCHANGED outsideMain

\* "finally: await ollama_client.client.aclose()", and main returns.
Cleanup ==
    /\ process.pc = "cleanup"
    /\ process' = [process EXCEPT !.pc = "returned", !.client = "closed"]
    /\ UNCHANGED outsideMain

\* What the process does by itself.
NextProcess ==
    \/ Setup
    \/ Serve
    \/ LoopIdles
    \/ WaitReturns
    \/ CancelPending
    \/ LeaveStdio
    \/ Cleanup

NextMain ==
    \/ NextProcess
    \/ SetupRaises
    \/ SignalDelivered
    \/ InputArrives
    \/ StdinCloses

SpecMain == Init /\ [][NextMain]_vars

\* The process goes on whenever it can; nothing makes a signal, a request
\* or the end of stdin come.
SpecMainFair == SpecMain /\ WF_vars(NextProcess)

(***************************** claims: main ********************************)

\* A signal has been delivered while main waited on its two tasks.
SignalledWhileServing == process.pc = "waiting" /\ process.shutdown_event

\* main has returned, with the server task not pending and the HTTP client
\* closed.
ShutDown ==
    /\ process.pc = "returned"
    /\ process.server_task # "pending"
    /\ process.client = "closed"

\* C30: graceful shutdown: once SIGINT or SIGTERM is delivered while the
\* server is serving, main eventually returns, and before it returns the
\* still-pending server task has been cancelled and the backend HTTP client
\* has been closed.
C30_SignalLeadsToShutdown == SignalledWhileServing ~> ShutDown

\* main returns only with the server task not pending and the client closed.
ReturnsShutDown == process.pc = "returned" => ShutDown
====
